---- MODULE Spec2Model ----
(***************************************************************************)
(* A model of the ad-library scraper service (index.ts): one run of one of *)
(* the five browser-driving functions scrape, scrapeV2, scrapeV3,          *)
(* takeScreenshot and diagnose, against a page and an internal API whose   *)
(* behaviour is chosen by the environment.                                 *)
(*                                                                         *)
(* Every await of the source is a step of the run (a value of pc).  A step *)
(* either completes or raises; an exception that the source catches        *)
(* locally is swallowed in the same step, one that it does not catch runs  *)
(* the function's catch block (scrape, scrapeV2, scrapeV3) or propagates   *)
(* (takeScreenshot, diagnose), and in both cases the finally block.        *)
(*                                                                         *)
(* The clock is the elapsed time since startTime in milliseconds.  Only    *)
(* its comparison with DEFAULT_TIMEOUT_MS is observable, so it advances in *)
(* steps of TickMs and saturates right above the budget.                   *)
(***************************************************************************)
EXTENDS Integers, Sequences, FiniteSets, TLC

\* ---------------------------------------------------------------- constants
MIN_ADS == 10
MAX_ADS == 1000
DEFAULT_ADS == 400
DEFAULT_TIMEOUT_MS == 180000
MAX_STALE_SCROLLS == 10
\* scrapeV3: "After 3 stale scrolls, switch to direct API approach"
EARLY_STALE_SCROLLS == 3
\* scrapeV3: low-yield threshold of the direct API fallback
LOW_YIELD_ADS == 30
\* scrapeV3: ceiling of the hydration poll and of the API pagination loop
HYDRATION_POLLS == 30
MAX_API_PAGES == 50

\* ------------------------------------------------------------------- bounds
\* the clock advances by TickMs per tick
TickMs == 180000
\* number of page snapshots whose page read fails in one run
MaxSnapshotFailures == 1
\* number of API pages the server answers freely before it repeats itself
MaxFreePages == 1
\* number of times the page content changes after the initial load
MaxDomChanges == 2
\* number of network / console events delivered to the handlers in one run
MaxEvents == 2
\* events delivered to each of two runs that share the process
MaxSharedEvents == 1
\* pieces in the text of a metadata span
MaxTextLen == 5
\* captured entries in a traffic list whose tokens are derived on its own
MaxCaptures == 3
\* img elements in an ad card whose media is resolved on its own
MaxImages == 2

\* ------------------------------------------------------------ input domains
Scrapers == {"scrape", "scrapeV2", "scrapeV3"}
Fns == Scrapers \cup {"takeScreenshot", "diagnose"}
\* What the environment of a run does besides serving the page:
\*   "static"   the clock advances;
\*   "dynamic"  the page content changes;
\*   "noisy"    responses and console messages reach the handlers, a document
\*              may be answered with 403, page snapshots may fail;
\*   "traffic"  scrapeV3 captures internal-API exchanges, the API is down;
\*   "api"      scrapeV3 captures the ad search query, the API answers and the
\*              clock advances;
\*   "restless" the page content changes without end, and every settle delay
\*              of the scroll loop takes TickMs;
\*   "shared"   responses reach the handlers, and the process hosts a second
\*              run;
\*   "hosted"   the environment of that second run: responses and console
\*              errors reach the handlers.
Envs == {"static", "dynamic", "noisy", "traffic", "api", "restless", "shared",
         "hosted"}
\* adLimit values: below MIN_ADS, in range, above MAX_ADS
AdLimits == {9, 25, 26, 1001}
\* numbers of ad cards the page shows
DomSizes == {0, 2, 25, 31}

\* The inputs of a run under each environment.  The runs against a static or
\* a changing page take every adLimit and page size; the others fix the
\* inputs to the cases their environment is about: a noisy load of an empty
\* or a full page, a low-yield page that leads scrapeV3 to its fallback,
\* pages of 2, 9 and 25 cards that the API results extend up to or beyond
\* the limits 10 and 26.
EnvAdLimits(e) ==
    CASE e \in {"static", "dynamic"} -> AdLimits
      [] e = "api" -> {9, 26}
      [] e = "restless" -> {26}
      [] OTHER -> {25}

EnvDomSizes(e) ==
    CASE e \in {"static", "dynamic"} -> DomSizes
      [] e = "noisy" -> {0, 25}
      [] e \in {"traffic", "shared"} -> {2}
      [] e = "api" -> {2, 9, 25}
      [] e = "restless" -> {2, 25}
      [] e = "hosted" -> {25}

\* the number of events a run's handlers receive
EnvEvents(e) == IF e \in {"shared", "hosted"} THEN MaxSharedEvents ELSE MaxEvents

EnvPageKinds(e) ==
    IF e \in {"static", "dynamic"} THEN {"distinct", "mixed"} ELSE {"distinct"}

NULL == 0
\* a null string
NO_NAME == "null"

Min(a, b) == IF a < b THEN a ELSE b
Max(a, b) == IF a > b THEN a ELSE b

\* Array.prototype.slice(0, n)
Slice(s, n) == SubSeq(s, 1, Min(Len(s), n))

\* ------------------------------------------------------------ page content
\* A card is the library id its "Library ID: <digits>" span shows (NULL when
\* the card has no such span), the media element it contains and the text of
\* its impressions span (NO_NAME when it has none).
\* "distinct": card i shows library id i and holds an image.
\* "mixed": card 1 holds a video; card 2 repeats the library id of card 1;
\* card 3 has no library id; card 4 has neither video nor image.
Card(kind, i) ==
    IF kind = "distinct"
    THEN [lid |-> i, media |-> "image", impressions |-> "<100"]
    ELSE CASE i = 1 -> [lid |-> 1, media |-> "video", impressions |-> "<100"]
           [] i = 2 -> [lid |-> 1, media |-> "image", impressions |-> NO_NAME]
           [] i = 3 -> [lid |-> NULL, media |-> "image", impressions |-> NO_NAME]
           [] i = 4 -> [lid |-> 4, media |-> "none", impressions |-> NO_NAME]
           [] OTHER -> [lid |-> i, media |-> "image", impressions |-> NO_NAME]

PageContent(kind, n) == [i \in 1..n |-> Card(kind, i)]

\* extractAdsFromDom: one record per card that has a library id and a video
\* or an image, in document order
extractAdsFromDom(d) ==
    LET emitted == SelectSeq(d, LAMBDA c : c.lid # NULL /\ c.media # "none")
    IN  [i \in 1..Len(emitted) |->
            [libraryId |-> emitted[i].lid, assetType |-> emitted[i].media,
             impressions |-> emitted[i].impressions]]

\* an extraction that removes the cards it has read
PageAfterExtract_Consuming(d) == <<>>

\* the page content after extractAdsFromDom: its script only reads the
\* document (querySelectorAll, textContent, src, naturalWidth)
PageAfterExtract(d) == d

\* EffectiveLimit without the lower clamp
EffectiveLimit_NoFloor(n) == Min(MAX_ADS, n)

\* const limit = Math.max(MIN_ADS, Math.min(MAX_ADS, adLimit))
EffectiveLimit(n) == Max(MIN_ADS, Min(MAX_ADS, n))

\* ------------------------------------------------------------------- state
VARIABLES
    fn,               \* the function this run executes
    env,              \* what the environment of this run does
    adLimit,          \* its adLimit argument
    limit,            \* const limit
    pc,               \* the await the run is at
    now,              \* Date.now() - startTime
    browser,          \* let browser: "null", "open", "closed", "closeFailed"
    completion,       \* how the try statement completed: "none", "return", "throw"
    settled,          \* how the function's promise settled: "pending", "return", "throw"
    result,           \* the value of the return statement
    dom,              \* the ad cards of the page, in document order
    pageKind,         \* which content the page serves
    spinner,          \* a progressbar / loading div is present
    domChanges,       \* number of content changes so far, up to MaxDomChanges
    docStatus,        \* HTTP status of the initial document load, NULL before it
    diagnostics, blockedRequests, consoleErrors, pageErrors,
    networkLog,       \* scrapeV2: NetworkEntry[]
    graphqlTraffic,   \* scrapeV3: GraphQLCapture[]
    pendingReads,     \* scrapeV3: response handlers suspended in await resp.text()
    eventCount,       \* number of events delivered so far
    advertiserName,
    hydrated,
    pollIndex,        \* the i of the hydration loop, 0 outside of it
    collectedAds, staleScrollCount, previousAdCount,
    trafficDocId, trafficDtsg, trafficLsd, adQueryDocId, pageState,
    currentCursor, apiPage, apiAds,
    scrollTest,       \* diagnose: ad counts before and after its one scroll
    \* history variables, read by the properties only
    escapedAt,        \* the step whose exception reached the function's try, or "none"
    logsAtRaise,      \* diagnostics, blockedRequests, consoleErrors at that exception
    loopExit,         \* why the scroll loop ended
    unchangedRun,     \* consecutive scroll iterations whose count equals the one before
    lastCount,        \* count extracted by the previous extraction of the run
    domAds,           \* collectedAds when the scroll loop ended
    apiExit,          \* why the API pagination loop ended
    apiRequests,      \* number of direct API requests issued
    apiDiscovered,    \* ad ids matched in the API responses, in discovery order
    nextMatches,      \* the cursors matched in the last API page that was parsed
    initialAds,       \* what the extraction before the scroll loop returned
    scrolled,         \* the run has issued a scroll command
    \* the process
    suspended,        \* the variables of the other run the process hosts, or NoRun
    \* the HTTP front door
    request,          \* the route and the body of a POST request, or NoRequest
    response,         \* the status the route handler answered with, NULL before
    call,             \* the function call the route handler made, or NoCall
    \* one card under extractAdsFromDom
    metadataSpans,    \* the texts of the card's metadata spans, in document order
    dates,            \* the startDate and endDate extracted from them, or NotParsed
    captures,         \* a captured traffic list handed to the token derivation
    folded,           \* how many of its entries the derivation has processed
    tokens,           \* the fields the derivation has set so far
    adCard,           \* an ad card handed to the media resolution of the extractor
    pushed,           \* what the extractor pushed for it, or NotRead
    adRegion,         \* the text around an ad id of an API response
    apiRecord         \* the record built from it, or NotRead

inputVars == <<fn, env, adLimit, limit>>
pageVars == <<dom, pageKind, spinner, domChanges, docStatus>>
eventVars == <<blockedRequests, consoleErrors, pageErrors, networkLog,
               graphqlTraffic, pendingReads, eventCount>>
hydVars == <<hydrated, pollIndex>>
scrollVars == <<collectedAds, staleScrollCount, previousAdCount>>
tokenVars == <<trafficDocId, trafficDtsg, trafficLsd, adQueryDocId, pageState>>
apiVars == <<currentCursor, apiPage, apiAds>>
exitVars == <<completion, result, escapedAt, logsAtRaise>>
histVars == <<loopExit, unchangedRun, lastCount, domAds,
              apiExit, apiRequests, apiDiscovered, nextMatches, initialAds,
              scrolled>>

cardVars == <<metadataSpans, dates>>
foldVars == <<captures, folded, tokens>>
mediaVars == <<adCard, pushed>>
regionVars == <<adRegion, apiRecord>>
hostVars == <<suspended, request, response, call, cardVars, foldVars,
              mediaVars, regionVars>>
runVars == <<inputVars, pc, now, browser, settled, pageVars, diagnostics,
             eventVars, advertiserName, hydVars, scrollVars, tokenVars,
             apiVars, scrollTest, exitVars, histVars>>

vars == <<hostVars, runVars>>

\* ----------------------------------------------------------------- results
NoResult ==
    [success |-> FALSE, ads |-> <<>>, totalFound |-> 0, errors |-> <<>>,
     advertiserName |-> NO_NAME]

\* FailureResult that drops the message
FailureResult_NoMessage(message) ==
    [success |-> FALSE, ads |-> <<>>, totalFound |-> 0, errors |-> <<>>,
     advertiserName |-> NO_NAME]

\* the object returned by the catch block of scrape, scrapeV2, scrapeV3
FailureResult(message) ==
    [success |-> FALSE, ads |-> <<>>, totalFound |-> 0, errors |-> <<message>>,
     advertiserName |-> NO_NAME]

\* SuccessResult that counts nothing
SuccessResult_NoCount(ads, name) ==
    [success |-> TRUE, ads |-> ads, totalFound |-> 0, errors |-> <<>>,
     advertiserName |-> name]

\* the object returned at the end of the try block
SuccessResult(ads, name) ==
    [success |-> TRUE, ads |-> ads, totalFound |-> Len(ads), errors |-> <<>>,
     advertiserName |-> name]

NoPageState == [forwardCursor |-> NULL, endCursor |-> NULL]

\* ------------------------------------------------------------ the process
\* Every variable of a run is declared in the body of its function, and its
\* handlers are closures over them: a call has variables of its own.  The
\* process runs one call at a time and changes to another call where the
\* running one awaits.
NoRun == [fn |-> "none"]

\* the variables of the running call
RunRecord ==
    [fn |-> fn, env |-> env, adLimit |-> adLimit, limit |-> limit, pc |-> pc,
     now |-> now, browser |-> browser, completion |-> completion,
     settled |-> settled, result |-> result, dom |-> dom,
     pageKind |-> pageKind, spinner |-> spinner, domChanges |-> domChanges,
     docStatus |-> docStatus, diagnostics |-> diagnostics,
     blockedRequests |-> blockedRequests, consoleErrors |-> consoleErrors,
     pageErrors |-> pageErrors, networkLog |-> networkLog,
     graphqlTraffic |-> graphqlTraffic, pendingReads |-> pendingReads,
     eventCount |-> eventCount, advertiserName |-> advertiserName,
     hydrated |-> hydrated, pollIndex |-> pollIndex,
     collectedAds |-> collectedAds, staleScrollCount |-> staleScrollCount,
     previousAdCount |-> previousAdCount, trafficDocId |-> trafficDocId,
     trafficDtsg |-> trafficDtsg, trafficLsd |-> trafficLsd,
     adQueryDocId |-> adQueryDocId, pageState |-> pageState,
     currentCursor |-> currentCursor, apiPage |-> apiPage, apiAds |-> apiAds,
     scrollTest |-> scrollTest, escapedAt |-> escapedAt,
     logsAtRaise |-> logsAtRaise, loopExit |-> loopExit,
     unchangedRun |-> unchangedRun, lastCount |-> lastCount,
     domAds |-> domAds, apiExit |-> apiExit, apiRequests |-> apiRequests,
     apiDiscovered |-> apiDiscovered, nextMatches |-> nextMatches,
     initialAds |-> initialAds, scrolled |-> scrolled]

\* the variables of a call that has not started
InitialRun(f, e, a, k) ==
    [fn |-> f, env |-> e, adLimit |-> a, limit |-> EffectiveLimit(a),
     pc |-> "launch", now |-> 0, browser |-> "null", completion |-> "none",
     settled |-> "pending", result |-> NoResult, dom |-> <<>>,
     pageKind |-> k, spinner |-> FALSE, domChanges |-> 0, docStatus |-> NULL,
     diagnostics |-> <<>>, blockedRequests |-> <<>>, consoleErrors |-> <<>>,
     pageErrors |-> <<>>, networkLog |-> <<>>, graphqlTraffic |-> <<>>,
     pendingReads |-> {}, eventCount |-> 0, advertiserName |-> NO_NAME,
     hydrated |-> FALSE, pollIndex |-> 0, collectedAds |-> <<>>,
     staleScrollCount |-> 0, previousAdCount |-> 0, trafficDocId |-> NULL,
     trafficDtsg |-> NULL, trafficLsd |-> NULL, adQueryDocId |-> NULL,
     pageState |-> NoPageState, currentCursor |-> NULL, apiPage |-> 0,
     apiAds |-> <<>>, scrollTest |-> <<0, 0>>, escapedAt |-> "none",
     logsAtRaise |-> <<>>, loopExit |-> "none", unchangedRun |-> 0,
     lastCount |-> 0, domAds |-> <<>>, apiExit |-> "none", apiRequests |-> 0,
     apiDiscovered |-> <<>>, nextMatches |-> NoPageState,
     initialAds |-> <<>>, scrolled |-> FALSE]

\* the second run of the process: scrape against a page of its own
HostedRuns(e) ==
    IF e = "shared"
    THEN {InitialRun("scrape", "hosted", a, "distinct") :
            a \in EnvAdLimits("hosted")}
    ELSE {NoRun}

\* Resumed with a capture list that all calls share
Resumed_SharedCaptures(saved, running) ==
    [saved EXCEPT !.graphqlTraffic = running.graphqlTraffic,
                  !.blockedRequests = running.blockedRequests]

\* what a call finds in its variables when it resumes: what it left there
Resumed(saved, running) == saved

\* the running call awaits and the process resumes the other call
Switch ==
    /\ suspended # NoRun
    /\ suspended' = RunRecord
    /\ UNCHANGED <<request, response, call, cardVars, foldVars, mediaVars,
                   regionVars>>
    /\ LET r == Resumed(suspended, RunRecord)
       IN  /\ fn' = r.fn
           /\ env' = r.env
           /\ adLimit' = r.adLimit
           /\ limit' = r.limit
           /\ pc' = r.pc
           /\ now' = r.now
           /\ browser' = r.browser
           /\ completion' = r.completion
           /\ settled' = r.settled
           /\ result' = r.result
           /\ dom' = r.dom
           /\ pageKind' = r.pageKind
           /\ spinner' = r.spinner
           /\ domChanges' = r.domChanges
           /\ docStatus' = r.docStatus
           /\ diagnostics' = r.diagnostics
           /\ blockedRequests' = r.blockedRequests
           /\ consoleErrors' = r.consoleErrors
           /\ pageErrors' = r.pageErrors
           /\ networkLog' = r.networkLog
           /\ graphqlTraffic' = r.graphqlTraffic
           /\ pendingReads' = r.pendingReads
           /\ eventCount' = r.eventCount
           /\ advertiserName' = r.advertiserName
           /\ hydrated' = r.hydrated
           /\ pollIndex' = r.pollIndex
           /\ collectedAds' = r.collectedAds
           /\ staleScrollCount' = r.staleScrollCount
           /\ previousAdCount' = r.previousAdCount
           /\ trafficDocId' = r.trafficDocId
           /\ trafficDtsg' = r.trafficDtsg
           /\ trafficLsd' = r.trafficLsd
           /\ adQueryDocId' = r.adQueryDocId
           /\ pageState' = r.pageState
           /\ currentCursor' = r.currentCursor
           /\ apiPage' = r.apiPage
           /\ apiAds' = r.apiAds
           /\ scrollTest' = r.scrollTest
           /\ escapedAt' = r.escapedAt
           /\ logsAtRaise' = r.logsAtRaise
           /\ loopExit' = r.loopExit
           /\ unchangedRun' = r.unchangedRun
           /\ lastCount' = r.lastCount
           /\ domAds' = r.domAds
           /\ apiExit' = r.apiExit
           /\ apiRequests' = r.apiRequests
           /\ apiDiscovered' = r.apiDiscovered
           /\ nextMatches' = r.nextMatches
           /\ initialAds' = r.initialAds
           /\ scrolled' = r.scrolled

\* ------------------------------------------------------ the dates of a card
\* The text of a span is a sequence of pieces: a date in the display format,
\* the separator of a date range, the lead of a start date, a blank.
Dates == {"3 Jan 2024", "10 Feb 2024"}
Separator == " - "
StartedLead == "Started running on "
Blank == " "
Pieces == Dates \cup {Separator, StartedLead, Blank}

RECURSIVE TextsOfLen(_)
TextsOfLen(n) ==
    IF n = 0 THEN {<<>>}
    ELSE {Append(t, piece) : t \in TextsOfLen(n - 1), piece \in Pieces}

Texts == UNION {TextsOfLen(n) : n \in 0..MaxTextLen}

\* the metadata spans of a card: one span, or a span followed by a start
\* date or by a date range
CardSpans ==
    {<<t>> : t \in Texts}
    \cup {<<t, u>> : t \in Texts,
                    u \in {<<StartedLead, "3 Jan 2024">>,
                           <<"10 Feb 2024", Separator, "3 Jan 2024">>}}

\* null as a text
NO_TEXT == <<>>
NotParsed == [parsed |-> FALSE]

\* /[0-9]{1,2} [A-Za-z]{3} [0-9]{4} - [0-9]{1,2} [A-Za-z]{3} [0-9]{4}/.test(text)
MatchesRange(t) ==
    \E i \in 1..Len(t) - 2 :
        t[i] \in Dates /\ t[i + 1] = Separator /\ t[i + 2] \in Dates

\* /Started running on [0-9]{1,2} [A-Za-z]{3} [0-9]{4}/.test(text)
MatchesStarted(t) ==
    \E i \in 1..Len(t) - 1 : t[i] = StartedLead /\ t[i + 1] \in Dates

\* text.split(' - ')
RECURSIVE Split(_)
Split(t) ==
    IF \A i \in 1..Len(t) : t[i] # Separator THEN <<t>>
    ELSE LET k == CHOOSE i \in 1..Len(t) :
                     t[i] = Separator /\ \A j \in 1..i - 1 : t[j] # Separator
         IN  <<SubSeq(t, 1, k - 1)>> \o Split(SubSeq(t, k + 1, Len(t)))

\* text.trim()
RECURSIVE Trim(_)
Trim(t) ==
    IF t = <<>> THEN t
    ELSE IF t[1] = Blank THEN Trim(Tail(t))
    ELSE IF t[Len(t)] = Blank THEN Trim(SubSeq(t, 1, Len(t) - 1))
    ELSE t

\* metadataSpans.find(...): the first span whose text holds a date range
dateRangeSpan(spans) == SelectSeq(spans, MatchesRange)[1]

\* metadataSpans.find(...): the first span whose text holds a start date
startSpan(spans) == SelectSeq(spans, MatchesStarted)[1]

\* the startDate and endDate of a card (lines 141-164)
ParseDates(spans) ==
    IF \E i \in 1..Len(spans) : MatchesRange(spans[i])
    THEN LET parts == Split(dateRangeSpan(spans))
         IN  IF Len(parts) = 2
             THEN [parsed |-> TRUE, startDate |-> Trim(parts[1]),
                   endDate |-> Trim(parts[2])]
             ELSE [parsed |-> TRUE, startDate |-> NO_TEXT, endDate |-> NO_TEXT]
    ELSE IF \E i \in 1..Len(spans) : MatchesStarted(spans[i])
    THEN LET t == startSpan(spans)
             k == CHOOSE i \in 1..Len(t) - 1 :
                     /\ t[i] = StartedLead /\ t[i + 1] \in Dates
                     /\ \A j \in 1..i - 1 :
                           ~(t[j] = StartedLead /\ t[j + 1] \in Dates)
         IN  [parsed |-> TRUE, startDate |-> <<t[k + 1]>>, endDate |-> NO_TEXT]
    ELSE [parsed |-> TRUE, startDate |-> NO_TEXT, endDate |-> NO_TEXT]

\* extractAdsFromDom reads the dates of the card
ReadDates ==
    /\ dates = NotParsed
    /\ metadataSpans # <<>>
    /\ dates' = ParseDates(metadataSpans)
    /\ UNCHANGED <<suspended, request, response, call, metadataSpans, foldVars,
                   mediaVars, regionVars, runVars>>

\* ------------------------------------------ the media of an ad card
\* What the extractor reads of a card for its media: the library id (NULL
\* when the card shows none), the first video element, if any, with its src
\* and poster ('' read as NULL), and the img elements in document order, each
\* with its src and its naturalWidth * naturalHeight.
DATA_URI == 9

NoVideo == [present |-> FALSE, src |-> NULL, poster |-> NULL]

Videos ==
    {NoVideo} \cup
    { [present |-> TRUE, src |-> sr, poster |-> po] :
        sr \in {NULL, 5}, po \in {NULL, 6} }

Images == [src : {NULL, DATA_URI, 1, 2}, area : 0..2]

AdCards ==
    [lid : {NULL, 7}, video : Videos,
     images : UNION {[1..n -> Images] : n \in 0..MaxImages}]

NoCard == [lid |-> NULL, video |-> NoVideo, images |-> <<>>]
NotRead == [read |-> FALSE]
NoRecord == [read |-> TRUE, emitted |-> FALSE]

\* img.src && !img.src.includes('data:')
Eligible(img) == img.src # NULL /\ img.src # DATA_URI

\* images.filter(...).sort((a, b) => area(b) - area(a))[0]: the sort is
\* stable, so the first of the eligible images of the largest area
BestImage(images) ==
    LET f == SelectSeq(images, Eligible)
    IN  IF f = <<>> THEN NULL
        ELSE LET top == CHOOSE i \in 1..Len(f) :
                          /\ \A j \in 1..Len(f) : f[j].area <= f[i].area
                          /\ \A j \in 1..(i - 1) : f[j].area < f[i].area
             IN  f[top].src

\* if (!libraryId) return;
\* if (videoEl?.src) { ads.push({ assetType: 'video', ... }); return; }
\* if (best?.src) ads.push({ assetType: 'image', ... })
ResolveMedia(card) ==
    IF card.lid = NULL THEN NoRecord
    ELSE IF card.video.present /\ card.video.src # NULL
    THEN [read |-> TRUE, emitted |-> TRUE, libraryId |-> card.lid,
          assetType |-> "video", assetUrl |-> card.video.src,
          thumbnailUrl |-> card.video.poster]
    ELSE IF BestImage(card.images) # NULL
    THEN [read |-> TRUE, emitted |-> TRUE, libraryId |-> card.lid,
          assetType |-> "image", assetUrl |-> BestImage(card.images),
          thumbnailUrl |-> NULL]
    ELSE NoRecord

\* no card is examined on its own
MediaIdle == adCard = NoCard /\ pushed = NotRead

\* adContainers.forEach((adCard) => { ... }) for one card
ReadCard ==
    /\ pushed = NotRead
    /\ adCard # NoCard
    /\ pushed' = ResolveMedia(adCard)
    /\ UNCHANGED <<suspended, request, response, call, cardVars, foldVars,
                   adCard, regionVars, runVars>>

\* ------------------------------------- the asset of an API-derived record
\* What the parser reads of the text around an ad id: the first value of
\* each of the five URL fields, absent (NoUrl) or a URL whose slashes the
\* JSON text may have escaped as \/.
NoUrl == [path |-> 0, escaped |-> FALSE]

\* the URL values a field can hold: each field a path of its own
UrlsOf(path) == {NoUrl} \cup {[path |-> path, escaped |-> e] : e \in BOOLEAN}

AdRegions ==
    [video_hd_url : UrlsOf(1), video_sd_url : UrlsOf(2),
     resized_image_url : UrlsOf(3), original_image_url : UrlsOf(4),
     snapshot_url : UrlsOf(5)]

NoRegion ==
    [video_hd_url |-> NoUrl, video_sd_url |-> NoUrl, resized_image_url |-> NoUrl,
     original_image_url |-> NoUrl, snapshot_url |-> NoUrl]

\* a || b on regex matches
FirstMatch(a, b) == IF a # NoUrl THEN a ELSE b

\* .replace(/\\\//g, '/')
Unescape(u) == [path |-> u.path, escaped |-> FALSE]

\* ApiAsset whose image comes before its video
ApiAsset_ImageFirst(region) ==
    LET imageMatch == FirstMatch(region.resized_image_url,
                                 region.original_image_url)
        videoMatch == FirstMatch(region.video_hd_url, region.video_sd_url)
    IN  [read |-> TRUE,
         assetType |-> IF imageMatch = NoUrl /\ videoMatch # NoUrl
                       THEN "video" ELSE "image",
         assetUrl |-> Unescape(FirstMatch(imageMatch,
                          FirstMatch(videoMatch, region.snapshot_url)))]

\* snapshotMatch, imageMatch, videoMatch, hasVideo, assetUrl and the
\* assetType of the record pushed to apiAds
ApiAsset(region) ==
    LET snapshotMatch == region.snapshot_url
        imageMatch == FirstMatch(region.resized_image_url,
                                 region.original_image_url)
        videoMatch == FirstMatch(region.video_hd_url, region.video_sd_url)
        hasVideo == videoMatch # NoUrl
    IN  [read |-> TRUE,
         assetType |-> IF hasVideo THEN "video" ELSE "image",
         assetUrl |-> IF hasVideo THEN Unescape(videoMatch)
                      ELSE Unescape(FirstMatch(imageMatch, snapshotMatch))]

\* no region is examined on its own
RegionIdle == adRegion = NoRegion /\ apiRecord = NotRead

\* the body of for (const adId of uniqueIds) for one new id
ReadRegion ==
    /\ apiRecord = NotRead
    /\ apiRecord' = ApiAsset(adRegion)
    /\ UNCHANGED <<suspended, request, response, call, cardVars, foldVars,
                   mediaVars, adRegion, runVars>>

\* ------------------------------------------------------- the HTTP front door
\* The body of a request holds facebookPageId and adLimit, each a JSON value
\* or absent (undefined).
PageIdValues ==
    { [type |-> "undefined", value |-> ""], [type |-> "null", value |-> ""],
      [type |-> "string", value |-> ""], [type |-> "string", value |-> "1234"],
      [type |-> "number", value |-> "1234"], [type |-> "number", value |-> "0"],
      [type |-> "boolean", value |-> "true"] }

AdLimitValues ==
    { [type |-> "undefined", value |-> 0], [type |-> "null", value |-> 0] }
    \cup { [type |-> "number", value |-> n] : n \in AdLimits }

Routes == {"/scrape", "/screenshot", "/scrape-v2", "/scrape-v3", "/diagnose"}

Requests == [route : Routes, facebookPageId : PageIdValues, adLimit : AdLimitValues]

NoRequest == [route |-> "none"]
NoCall == [fn |-> "none"]

\* !v is false
Truthy(v) ==
    CASE v.type \in {"undefined", "null"} -> FALSE
      [] v.type = "string" -> v.value # ""
      [] v.type = "number" -> v.value # "0"
      [] v.type = "boolean" -> v.value = "true"

\* ValidPageId without the typeof test
ValidPageId_NoTypeCheck(v) == Truthy(v)

\* !(!facebookPageId || typeof facebookPageId !== 'string')
ValidPageId(v) == Truthy(v) /\ v.type = "string"

\* adLimit ?? DEFAULT_ADS
RouteAdLimit(v) == IF v.type \in {"undefined", "null"} THEN DEFAULT_ADS ELSE v.value

\* the function each route calls
RouteFn(route) ==
    CASE route = "/scrape" -> "scrape"
      [] route = "/screenshot" -> "takeScreenshot"
      [] route = "/scrape-v2" -> "scrapeV2"
      [] route = "/scrape-v3" -> "scrapeV3"
      [] route = "/diagnose" -> "diagnose"

\* app.post(route, ...): answers 400 and returns, or calls the route's
\* function, whose first statement computes the limit
Route ==
    /\ request # NoRequest
    /\ response = NULL /\ call = NoCall
    /\ IF ValidPageId(request.facebookPageId)
       THEN /\ call' =
                  IF RouteFn(request.route) \in Scrapers
                  THEN LET a == RouteAdLimit(request.adLimit)
                       IN  [fn |-> RouteFn(request.route), adLimit |-> a,
                            limit |-> EffectiveLimit(a)]
                  ELSE [fn |-> RouteFn(request.route)]
            /\ UNCHANGED response
       ELSE /\ response' = 400
            /\ UNCHANGED call
    /\ UNCHANGED <<suspended, request, cardVars, foldVars, mediaVars,
                   regionVars, runVars>>

\* a run, as its function was called
\* let trafficDocId = null; let trafficDtsg = null; let trafficLsd = null;
\* let adQueryDocId = null
NoTokens == [trafficDocId |-> NULL, trafficDtsg |-> NULL, trafficLsd |-> NULL,
             adQueryDocId |-> NULL]

\* no token derivation is examined on its own
FoldIdle == captures = <<>> /\ folded = 0 /\ tokens = NoTokens

RunInit ==
    /\ fn \in Fns
    /\ env \in Envs
    /\ env \in {"traffic", "api", "shared"} => fn = "scrapeV3"
    /\ env = "restless" => fn \in Scrapers
    /\ env = "hosted" => fn = "scrape"
    /\ adLimit \in (IF fn \in Scrapers THEN EnvAdLimits(env) ELSE {DEFAULT_ADS})
    /\ limit = EffectiveLimit(adLimit)
    /\ pc = "launch"
    /\ now = 0
    /\ browser = "null"
    /\ completion = "none"
    /\ settled = "pending"
    /\ result = NoResult
    /\ dom = <<>>
    /\ pageKind \in EnvPageKinds(env)
    /\ pageKind = "mixed" => adLimit \in {9, DEFAULT_ADS}
    /\ spinner = FALSE
    /\ domChanges = 0
    /\ docStatus = NULL
    /\ diagnostics = <<>>
    /\ blockedRequests = <<>>
    /\ consoleErrors = <<>>
    /\ pageErrors = <<>>
    /\ networkLog = <<>>
    /\ graphqlTraffic = <<>>
    /\ pendingReads = {}
    /\ eventCount = 0
    /\ advertiserName = NO_NAME
    /\ hydrated = FALSE
    /\ pollIndex = 0
    /\ collectedAds = <<>>
    /\ staleScrollCount = 0
    /\ previousAdCount = 0
    /\ trafficDocId = NULL
    /\ trafficDtsg = NULL
    /\ trafficLsd = NULL
    /\ adQueryDocId = NULL
    /\ pageState = NoPageState
    /\ currentCursor = NULL
    /\ apiPage = 0
    /\ apiAds = <<>>
    /\ scrollTest = <<0, 0>>
    /\ escapedAt = "none"
    /\ logsAtRaise = <<>>
    /\ loopExit = "none"
    /\ unchangedRun = 0
    /\ lastCount = 0
    /\ domAds = <<>>
    /\ apiExit = "none"
    /\ apiRequests = 0
    /\ apiDiscovered = <<>>
    /\ nextMatches = NoPageState
    /\ initialAds = <<>>
    /\ scrolled = FALSE

Init ==
    /\ RunInit
    /\ suspended \in HostedRuns(env)
    /\ request = NoRequest /\ response = NULL /\ call = NoCall
    /\ metadataSpans = <<>> /\ dates = NotParsed
    /\ FoldIdle
    /\ MediaIdle
    /\ RegionIdle

\* ------------------------------------------------------------- environment
\* The environment acts where the run can observe it: the clock is read at the
\* head of the scroll loop and of the pagination loop, the page content by the
\* steps that evaluate a script against it, the handlers' lists while the run
\* waits for the page.  Time also passes while a hydration poll of scrapeV3
\* is evaluated, where the run does not read the clock.

\* time passes
Tick ==
    /\ env \in {"static", "api"}
    /\ pc \in {"loopHead", "apiHead"} \/ (pc = "hydPoll" /\ env = "static")
    /\ now <= DEFAULT_TIMEOUT_MS
    /\ now' = Min(now + TickMs, DEFAULT_TIMEOUT_MS + 1)
    /\ UNCHANGED <<hostVars, inputVars, pc, browser, settled, pageVars, diagnostics,
                   eventVars, advertiserName, hydVars, scrollVars, tokenVars,
                   apiVars, scrollTest, exitVars, histVars>>

\* the page renders more cards (lazy load) or drops cards; while scrapeV3
\* waits for hydration its spinner appears or disappears
PageMutate ==
    /\ env \in {"dynamic", "restless"}
    /\ pc \in {"hydPoll", "initExtract", "extract", "dgPreScroll", "dgPostScroll"}
    /\ env = "dynamic" => domChanges < MaxDomChanges
    /\ \E n \in EnvDomSizes(env), sp \in BOOLEAN :
          /\ <<n, sp>> # <<Len(dom), spinner>>
          /\ sp # spinner => pc = "hydPoll"
          /\ dom' = PageContent(pageKind, n)
          /\ spinner' = sp
    /\ domChanges' = Min(domChanges + 1, MaxDomChanges)
    /\ UNCHANGED <<hostVars, inputVars, pc, now, browser, settled, pageKind, docStatus,
                   diagnostics, eventVars, advertiserName, hydVars, scrollVars,
                   tokenVars, apiVars, scrollTest, exitVars, histVars>>

\* What a captured internal-API exchange carries: the doc_id, fb_dtsg and lsd
\* form fields of its request body (NULL when absent), whether its variables
\* name the page id, whether its response text holds an ad marker.
Capture(docId, dtsg, lsd, varsHasPageId, respHasAdMarker, status) ==
    [docId |-> docId, dtsg |-> dtsg, lsd |-> lsd,
     varsHasPageId |-> varsHasPageId, respHasAdMarker |-> respHasAdMarker,
     status |-> status]

AdSearchCapture == Capture(2, 2, 1, TRUE, TRUE, 200)

CaptureSet ==
    { Capture(1, 1, NULL, FALSE, FALSE, 200),      \* some other query
      AdSearchCapture,                             \* the ad search query
      Capture(NULL, NULL, NULL, TRUE, FALSE, 200), \* page id, no doc_id
      Capture(2, NULL, NULL, FALSE, TRUE, 403) }   \* ad markers, blocked

\* the exchanges a run can capture
Captures == IF env \in {"api", "shared"} THEN {AdSearchCapture} ELSE CaptureSet

\* the run waits for the page after the load, where the traffic and the
\* messages of the load reach the handlers
EventPoint == browser = "open" /\ pc = "consent"

\* PushBlocked that records nothing
PushBlocked_Never(blocked, status, marker) == blocked

\* if (resp.status() === 403) blockedRequests.push(`403: ${resp.url()...}`)
PushBlocked(blocked, status, marker) ==
    IF status = 403 THEN Append(blocked, marker) ELSE blocked

\* page.on('response'): a 403 leaves a blocked marker; scrapeV2 logs the
\* internal-API and ajax responses; scrapeV3 starts reading the body of an
\* internal-API response
OnResponse ==
    /\ EventPoint
    /\ fn \in Scrapers
    /\ env \in {"noisy", "traffic", "api", "shared", "hosted"}
    /\ eventCount < EnvEvents(env)
    /\ eventCount' = eventCount + 1
    /\ \E status \in {200, 403}, api \in BOOLEAN :
          /\ status = 403 \/ (api /\ fn # "scrape")
          /\ (fn = "scrapeV3" /\ api) <=> env \in {"traffic", "api", "shared"}
          /\ blockedRequests' = PushBlocked(blockedRequests, status, "403: other")
          /\ networkLog' =
                IF fn = "scrapeV2" /\ api THEN Append(networkLog, status)
                ELSE networkLog
          /\ IF fn = "scrapeV3" /\ api
             THEN \E c \in Captures :
                     /\ c.status = status
                     /\ pendingReads' =
                           pendingReads \cup {[seq |-> eventCount', cap |-> c]}
             ELSE pendingReads' = pendingReads
    /\ UNCHANGED <<hostVars, inputVars, pc, now, browser, settled, pageVars, diagnostics,
                   consoleErrors, pageErrors, graphqlTraffic, advertiserName,
                   hydVars, scrollVars, tokenVars, apiVars, scrollTest,
                   exitVars, histVars>>

\* scrapeV3: await resp.text() resolves and the capture is pushed, or it
\* rejects and the handler's catch {} drops it
ReadBody ==
    /\ pendingReads # {}
    /\ pc \in {"consent", "pageScripts", "apiDelay", "finalize"}
    /\ \E r \in pendingReads :
          /\ pendingReads' = pendingReads \ {r}
          /\ \/ graphqlTraffic' = Append(graphqlTraffic, r.cap)
             \/ UNCHANGED graphqlTraffic
    /\ UNCHANGED <<hostVars, inputVars, pc, now, browser, settled, pageVars, diagnostics,
                   blockedRequests, consoleErrors, pageErrors, networkLog,
                   eventCount, advertiserName, hydVars, scrollVars, tokenVars,
                   apiVars, scrollTest, exitVars, histVars>>

\* page.on('console') with an error message; page.on('pageerror') in scrapeV3
OnConsoleError ==
    /\ EventPoint
    /\ fn \in Scrapers
    /\ env \in {"noisy", "hosted"}
    /\ eventCount < EnvEvents(env)
    /\ eventCount' = eventCount + 1
    /\ \/ /\ consoleErrors' = Append(consoleErrors, "console error")
          /\ UNCHANGED pageErrors
       \/ /\ fn = "scrapeV3"
          /\ pageErrors' = Append(pageErrors, "page error")
          /\ UNCHANGED consoleErrors
    /\ UNCHANGED <<hostVars, inputVars, pc, now, browser, settled, pageVars, diagnostics,
                   blockedRequests, networkLog, graphqlTraffic, pendingReads,
                   advertiserName, hydVars, scrollVars, tokenVars, apiVars,
                   scrollTest, exitVars, histVars>>

\* ------------------------------------------------------------ the run: exits
\* An exception reaches the function's try statement at `step`: the catch
\* block of a scraper returns the failure object, takeScreenshot and diagnose
\* have no catch block and rethrow after the finally block.
Raise(step) ==
    /\ pc' = "finally"
    /\ escapedAt' = step
    /\ logsAtRaise' = <<diagnostics, blockedRequests, consoleErrors>>
    /\ IF fn \in Scrapers
       THEN result' = FailureResult(step) /\ completion' = "return"
       ELSE result' = result /\ completion' = "throw"

\* the step raises and nothing else changes
RaiseOnly(step) ==
    /\ Raise(step)
    /\ UNCHANGED <<hostVars, inputVars, now, browser, settled, pageVars, diagnostics,
                   eventVars, advertiserName, hydVars, scrollVars, tokenVars,
                   apiVars, scrollTest, histVars>>

\* the step completes, the run moves to `next` and nothing else changes; so
\* does a step whose exception the source catches and ignores
Goto(next) ==
    /\ pc' = next
    /\ UNCHANGED <<hostVars, inputVars, now, browser, settled, pageVars, diagnostics,
                   eventVars, advertiserName, hydVars, scrollVars, tokenVars,
                   apiVars, scrollTest, exitVars, histVars>>

\* CloseBrowser that never calls close
CloseBrowser_Skipped(b) == {b}

\* await browser.close().catch(() => {}): closed, or the failure is swallowed
CloseBrowser(b) == IF b = "open" THEN {"closed", "closeFailed"} ELSE {b}

\* finally { if (browser) await browser.close().catch(() => {}); }
Finally ==
    /\ pc = "finally"
    /\ pc' = "settlePromise"
    /\ browser' \in CloseBrowser(browser)
    /\ UNCHANGED <<hostVars, inputVars, now, settled, pageVars, diagnostics, eventVars,
                   advertiserName, hydVars, scrollVars, tokenVars, apiVars,
                   scrollTest, exitVars, histVars>>

\* the function's promise settles with the completion of its try statement
SettlePromise ==
    /\ pc = "settlePromise"
    /\ pc' = "done"
    /\ settled' = completion
    /\ UNCHANGED <<hostVars, inputVars, now, browser, pageVars, diagnostics, eventVars,
                   advertiserName, hydVars, scrollVars, tokenVars, apiVars,
                   scrollTest, exitVars, histVars>>

\* collectPageDiagnostics whose failure record lacks the label
collectPageDiagnostics_NoLabel(label, failed) ==
    IF failed THEN [error |-> failed] ELSE [label |-> label, error |-> failed]

\* collectPageDiagnostics(page, label): the labelled snapshot, or the label
\* and the failure message when the page read fails
collectPageDiagnostics(label, failed) == [label |-> label, error |-> failed]

IsFailedSnapshot(e) == "error" \in DOMAIN e /\ e.error

SnapshotFailures ==
    Cardinality({i \in DOMAIN diagnostics : IsFailedSnapshot(diagnostics[i])})

\* whether the page read of the next snapshot may fail
MayFail(failed) ==
    failed => env = "noisy" /\ SnapshotFailures < MaxSnapshotFailures

\* ------------------------------------------------- the run: load the page
\* browser = await chromium.launch(...)
Launch ==
    /\ pc = "launch"
    /\ \/ /\ browser' = "open"
          /\ pc' = "setup"
          /\ UNCHANGED <<hostVars, inputVars, now, settled, pageVars, diagnostics,
                         eventVars, advertiserName, hydVars, scrollVars,
                         tokenVars, apiVars, scrollTest, exitVars, histVars>>
       \/ RaiseOnly("launch")

\* newContext, newPage, addInitScript / applyStealthScripts, page.on(...)
Setup ==
    /\ pc = "setup"
    /\ \/ Goto("goto")
       \/ RaiseOnly("setup")

\* await page.goto(url, ...): resolves for every HTTP status of the document
\* (its response is discarded), rejects on a network error or a timeout.
\* The scrapers' response handler sees the document response.  A document
\* answered with 403 shows no ad card.
Navigate ==
    /\ pc = "goto"
    /\ \/ /\ \E status \in {200, 403}, n \in EnvDomSizes(env), sp \in BOOLEAN :
                /\ status = 403 => env = "noisy" /\ n = 0
                /\ sp => fn = "scrapeV3" /\ env \in {"static", "dynamic"}
                /\ docStatus' = status
                /\ dom' = PageContent(pageKind, n)
                /\ spinner' = sp
                /\ blockedRequests' =
                      IF status = 403 /\ fn \in Scrapers
                      THEN Append(blockedRequests, "403: document")
                      ELSE blockedRequests
          /\ pc' = "consent"
          /\ UNCHANGED <<hostVars, inputVars, now, browser, settled, pageKind,
                         domChanges, diagnostics, consoleErrors, pageErrors,
                         networkLog, graphqlTraffic, pendingReads, eventCount,
                         advertiserName, hydVars, scrollVars, tokenVars,
                         apiVars, scrollTest, exitVars, histVars>>
       \/ RaiseOnly("goto")

AfterConsent ==
    CASE fn \in {"scrape", "takeScreenshot"} -> "waitRender"
      [] fn = "scrapeV2" -> "waitSelector"
      [] fn = "scrapeV3" -> "hydPoll"
      [] fn = "diagnose" -> "settleLoad"

\* dismissCookieConsent: try { ... } catch { /* No consent dialog */ }
DismissCookieConsent ==
    /\ pc = "consent"
    /\ Goto(AfterConsent)

\* waitForAdsToRender (scrape, takeScreenshot); the waitForSelector try/catch
\* of scrapeV2
WaitForAdsToRender ==
    /\ pc \in {"waitRender", "waitSelector"}
    /\ Goto(CASE fn = "scrape" -> "diagLoad"
                        [] fn = "takeScreenshot" -> "shotDiag"
                        [] OTHER -> "settleLoad")

\* PollSucceeds that does not look at the spinner
PollSucceeds_AnyCard(adCount, hasSpinner) == adCount > 0

\* if (state.adCount > 0 && !state.hasSpinner)
PollSucceeds(adCount, hasSpinner) == adCount > 0 /\ ~hasSpinner

\* scrapeV3 hydration poll: const state = await page.evaluate(...), then
\* break when state.adCount > 0 && !state.hasSpinner
HydrationPoll ==
    /\ pc = "hydPoll"
    /\ \/ /\ IF PollSucceeds(Len(dom), spinner)
             THEN hydrated' = TRUE /\ pollIndex' = 0 /\ pc' = "settleLoad"
             ELSE UNCHANGED <<hydrated, pollIndex>> /\ pc' = "hydWait"
          /\ UNCHANGED <<hostVars, inputVars, now, browser, settled, pageVars,
                         diagnostics, eventVars, advertiserName,
                         scrollVars, tokenVars, apiVars, scrollTest, exitVars,
                         histVars>>
       \/ RaiseOnly("hydPoll")

\* NextPoll that does not advance
NextPoll_Stuck(i) == i

\* i++
NextPoll(i) == i + 1

\* await page.waitForTimeout(2_000); i++; i < 30
HydrationWait ==
    /\ pc = "hydWait"
    /\ \/ /\ IF NextPoll(pollIndex) < HYDRATION_POLLS
             THEN pollIndex' = NextPoll(pollIndex) /\ pc' = "hydPoll"
             ELSE pollIndex' = 0 /\ pc' = "settleLoad"
          /\ UNCHANGED <<hostVars, inputVars, now, browser, settled, pageVars,
                         diagnostics, eventVars, advertiserName, hydrated,
                         scrollVars, tokenVars, apiVars, scrollTest, exitVars,
                         histVars>>
       \/ RaiseOnly("hydWait")

\* the settle delay before the first snapshot: waitForTimeout(5_000) in
\* scrapeV2 and diagnose, waitForTimeout(3_000) in scrapeV3
SettleAfterLoad ==
    /\ pc = "settleLoad"
    /\ \/ Goto("diagLoad")
       \/ RaiseOnly("settleLoad")

LoadLabel ==
    CASE fn = "scrape" -> "after-initial-load"
      [] fn = "scrapeV2" -> "v2-after-load"
      [] fn = "scrapeV3" -> "v3-after-hydration"
      [] fn = "takeScreenshot" -> "screenshot"
      [] fn = "diagnose" -> "diagnose"

\* diagnostics.push(await collectPageDiagnostics(page, <label>)); scrapeV2
\* also pushes a copy of its network log
DiagnoseLoad ==
    /\ pc \in {"diagLoad", "shotDiag"}
    /\ \E failed \in BOOLEAN :
          /\ MayFail(failed)
          /\ diagnostics' =
                LET d == Append(diagnostics, collectPageDiagnostics(LoadLabel, failed))
                IN  IF fn = "scrapeV2"
                    THEN Append(d, [label |-> "v2-initial-network",
                                    data |-> networkLog])
                    ELSE d
    /\ pc' = CASE fn = "scrape" -> "advertiser"
               [] fn = "scrapeV2" -> "jsState"
               [] fn = "scrapeV3" -> "advertiser"
               [] fn = "takeScreenshot" -> "screenshot"
               [] fn = "diagnose" -> "jsState"
    /\ UNCHANGED <<hostVars, inputVars, now, browser, settled, pageVars, eventVars,
                   advertiserName, hydVars, scrollVars, tokenVars, apiVars,
                   scrollTest, exitVars, histVars>>

\* const jsState = await page.evaluate(...) (scrapeV2, diagnose); scrapeV2
\* pushes it to diagnostics
JsState ==
    /\ pc = "jsState"
    /\ \/ /\ diagnostics' =
                IF fn = "scrapeV2"
                THEN Append(diagnostics, [label |-> "v2-js-state", ok |-> TRUE])
                ELSE diagnostics
          /\ pc' = IF fn = "scrapeV2" THEN "advertiser" ELSE "dgPreScroll"
          /\ UNCHANGED <<hostVars, inputVars, now, browser, settled, pageVars, eventVars,
                         advertiserName, hydVars, scrollVars, tokenVars,
                         apiVars, scrollTest, exitVars, histVars>>
       \/ RaiseOnly("jsState")

\* the text of the page's advertiser heading, null when it has none: the
\* "distinct" page has one unless its document was refused
extractAdvertiserName(kind, status) ==
    IF kind = "distinct" /\ status = 200 THEN "Acme" ELSE NO_NAME

\* const advertiserName = await extractAdvertiserName(page)
ExtractAdvertiserName ==
    /\ pc = "advertiser"
    /\ \/ /\ advertiserName' = extractAdvertiserName(pageKind, docStatus)
          /\ pc' = IF fn = "scrapeV3" THEN "initExtract" ELSE "loopHead"
          /\ UNCHANGED <<hostVars, inputVars, now, browser, settled, pageVars,
                         diagnostics, eventVars, hydVars, scrollVars,
                         tokenVars, apiVars, scrollTest, exitVars, histVars>>
       \/ RaiseOnly("advertiser")

\* ---------------------------------------------------- the run: scroll loop
\* let collectedAds = await extractAdsFromDom(page);
\* let previousAdCount = collectedAds.length            (scrapeV3 only)
InitialExtraction ==
    /\ pc = "initExtract"
    /\ \/ /\ collectedAds' = extractAdsFromDom(dom)
          /\ dom' = PageAfterExtract(dom)
          /\ previousAdCount' = Len(collectedAds')
          /\ lastCount' = Len(collectedAds')
          /\ initialAds' = collectedAds'
          /\ pc' = "loopHead"
          /\ UNCHANGED <<hostVars, inputVars, now, browser, settled, pageKind,
                         spinner, domChanges, docStatus,
                         diagnostics, eventVars, advertiserName, hydVars,
                         staleScrollCount, tokenVars, apiVars,
                         scrollTest, exitVars, loopExit,
                         unchangedRun, domAds, apiExit, apiRequests,
                         apiDiscovered,
                         nextMatches, scrolled>>
       \/ RaiseOnly("initExtract")

\* if (Date.now() - startTime > DEFAULT_TIMEOUT_MS)
BudgetExceeded(elapsed) == elapsed > DEFAULT_TIMEOUT_MS

\* where the run continues when the scroll loop has ended
AfterLoop == IF fn = "scrapeV3" THEN "fallback" ELSE "finalize"

\* while (collectedAds.length < limit) {
\*   if (Date.now() - startTime > DEFAULT_TIMEOUT_MS) break;
\*   scrollIteration++;   (scrollIteration is only logged)
LoopHead ==
    /\ pc = "loopHead"
    /\ IF Len(collectedAds) < limit /\ ~BudgetExceeded(now)
       THEN /\ pc' = "scroll"
            /\ UNCHANGED <<loopExit, domAds>>
       ELSE /\ loopExit' = IF Len(collectedAds) < limit THEN "budget" ELSE "limit"
            /\ domAds' = collectedAds
            /\ pc' = AfterLoop
    /\ UNCHANGED <<hostVars, inputVars, now, browser, settled, pageVars, diagnostics,
                   eventVars, advertiserName, hydVars, collectedAds,
                   staleScrollCount, previousAdCount, tokenVars, apiVars,
                   scrollTest, exitVars, unchangedRun, lastCount,
                   apiExit, apiRequests, apiDiscovered,
                   nextMatches, initialAds, scrolled>>

\* the scroll command: window.scrollTo(0, scrollHeight) in scrape and
\* scrapeV3 (scrape reads height and position first), a smooth scroll by two
\* viewport heights in scrapeV2
ScrollCommand ==
    /\ pc = "scroll"
    /\ \/ /\ pc' = IF fn = "scrapeV2" THEN "settle" ELSE "seeMore"
          /\ scrolled' = TRUE
          /\ UNCHANGED <<hostVars, inputVars, now, browser, settled, pageVars,
                         diagnostics, eventVars, advertiserName, hydVars,
                         scrollVars, tokenVars, apiVars, scrollTest, exitVars,
                         loopExit, unchangedRun, lastCount, domAds, apiExit,
                         apiRequests, apiDiscovered, nextMatches, initialAds>>
       \/ RaiseOnly("scroll")

\* try { if (await btn.isVisible(...)) { await btn.click(); ... } } catch {}
ClickSeeMore ==
    /\ pc = "seeMore"
    /\ Goto("settle")

\* the elapsed time after a settle delay
AfterDelay(elapsed) ==
    IF env = "restless" THEN Min(elapsed + TickMs, DEFAULT_TIMEOUT_MS + 1)
    ELSE elapsed

\* await page.waitForTimeout(SCROLL_DELAY_MS); the randomized delay of scrapeV2
SettleDelay ==
    /\ pc = "settle"
    /\ \/ /\ pc' = IF fn = "scrapeV2" THEN "nearBottom" ELSE "extract"
          /\ now' = AfterDelay(now)
          /\ UNCHANGED <<hostVars, inputVars, browser, settled, pageVars, diagnostics,
                         eventVars, advertiserName, hydVars, scrollVars,
                         tokenVars, apiVars, scrollTest, exitVars, histVars>>
       \/ RaiseOnly("settle")

\* scrapeV2: const nearBottom = await page.evaluate(...); if (nearBottom) {
\* wait, scroll to the absolute end, wait }
NearBottom ==
    /\ pc = "nearBottom"
    /\ \/ Goto("extract")
       \/ RaiseOnly("nearBottom")

\* collectedAds = await extractAdsFromDom(page)
ReExtract ==
    /\ pc = "extract"
    /\ \/ /\ collectedAds' = extractAdsFromDom(dom)
          /\ dom' = PageAfterExtract(dom)
          /\ pc' = "compare"
          /\ UNCHANGED <<hostVars, inputVars, now, browser, settled, pageKind,
                         spinner, domChanges, docStatus,
                         diagnostics, eventVars, advertiserName, hydVars,
                         staleScrollCount, previousAdCount,
                         tokenVars, apiVars, scrollTest, exitVars, histVars>>
       \/ RaiseOnly("extract")

StaleLabel ==
    CASE fn = "scrape" -> "first-stale-scroll"
      [] fn = "scrapeV2" -> "v2-first-stale"
      [] OTHER -> "v3-first-stale"

\* the entries pushed on the first stale scroll
FirstStaleEntries(failed) ==
    IF fn = "scrapeV2"
    THEN <<collectPageDiagnostics(StaleLabel, failed),
           [label |-> "v2-stale-network", data |-> networkLog]>>
    ELSE <<collectPageDiagnostics(StaleLabel, failed)>>

\* EarlyBreak without the test of the collected count
EarlyBreak_AnyCount(stale, count) ==
    fn = "scrapeV3" /\ stale >= EARLY_STALE_SCROLLS

\* EarlyBreak taken by every scraper
EarlyBreak_AnyScraper(stale, count) ==
    stale >= EARLY_STALE_SCROLLS /\ count <= LOW_YIELD_ADS

\* scrapeV3: if (staleScrollCount >= 3 && collectedAds.length <= 30) break
EarlyBreak(stale, count) ==
    fn = "scrapeV3" /\ stale >= EARLY_STALE_SCROLLS /\ count <= LOW_YIELD_ADS

\* StaleBreak with > for >=
StaleBreak_OffByOne(stale) == stale > MAX_STALE_SCROLLS

\* if (staleScrollCount >= MAX_STALE_SCROLLS) break
StaleBreak(stale) == stale >= MAX_STALE_SCROLLS

\* NextStale without the reset
NextStale_NoReset(stale, count, previous) ==
    IF count = previous THEN stale + 1 ELSE stale

\* if (collectedAds.length === previousAdCount) { staleScrollCount++; ... }
\* else { staleScrollCount = 0; }
NextStale(stale, count, previous) == IF count = previous THEN stale + 1 ELSE 0

\* NextPrevious that never moves on from the first count
NextPrevious_Kept(previous, count) == previous

\* previousAdCount = collectedAds.length
NextPrevious(previous, count) == count

\* the comparison that ends a scroll iteration
Compare ==
    /\ pc = "compare"
    /\ LET count == Len(collectedAds)
           stale == NextStale(staleScrollCount, count, previousAdCount)
           isStale == count = previousAdCount
           early == isStale /\ EarlyBreak(stale, count)
           stop == isStale /\ (early \/ StaleBreak(stale))
       IN  /\ staleScrollCount' = stale
           /\ IF isStale /\ stale = 1
              THEN \E failed \in BOOLEAN :
                      /\ MayFail(failed)
                      /\ diagnostics' = diagnostics \o FirstStaleEntries(failed)
                          ELSE UNCHANGED diagnostics
           /\ IF stop
              THEN /\ loopExit' = IF early THEN "early" ELSE "stale"
                   /\ domAds' = collectedAds
                   /\ pc' = AfterLoop
                   /\ UNCHANGED previousAdCount
              ELSE /\ previousAdCount' = NextPrevious(previousAdCount, count)
                   /\ pc' = "loopHead"
                   /\ UNCHANGED <<loopExit, domAds>>
           /\ unchangedRun' = IF count = lastCount THEN unchangedRun + 1 ELSE 0
           /\ lastCount' = count
    /\ UNCHANGED <<hostVars, inputVars, now, browser, settled, pageVars, eventVars,
                   advertiserName, hydVars, collectedAds,
                   tokenVars, apiVars, scrollTest, exitVars, apiExit,
                   apiRequests, apiDiscovered,
                   nextMatches, initialAds, scrolled>>

\* -------------------------------------------- scrapeV3: direct API fallback
\* a || b on nullable values
OrElse(a, b) == IF a # NULL THEN a ELSE b

\* TokenStep whose CSRF token is the one of the last entry that carries one
TokenStep_LastDtsg(t, c) ==
    [trafficDocId |-> IF c.docId # NULL /\ t.trafficDocId = NULL
                      THEN c.docId ELSE t.trafficDocId,
     trafficDtsg |-> OrElse(c.dtsg, t.trafficDtsg),
     trafficLsd |-> IF c.lsd # NULL /\ t.trafficLsd = NULL
                    THEN c.lsd ELSE t.trafficLsd,
     adQueryDocId |-> t.adQueryDocId]

\* one iteration of: for (const traffic of graphqlTraffic) { ... }
TokenStep(t, c) ==
    LET docId1 == IF c.docId # NULL /\ t.trafficDocId = NULL
                  THEN c.docId ELSE t.trafficDocId
        dtsg1 == IF c.dtsg # NULL /\ t.trafficDtsg = NULL
                 THEN c.dtsg ELSE t.trafficDtsg
        lsd1 == IF c.lsd # NULL /\ t.trafficLsd = NULL
                THEN c.lsd ELSE t.trafficLsd
        ad1 == IF c.varsHasPageId THEN c.docId ELSE t.adQueryDocId
        ad2 == IF c.respHasAdMarker /\ c.docId # NULL THEN c.docId ELSE ad1
    IN  [trafficDocId |-> docId1, trafficDtsg |-> dtsg1, trafficLsd |-> lsd1,
         adQueryDocId |-> ad2]

RECURSIVE TokenFold(_, _)
TokenFold(t, traffic) ==
    IF traffic = <<>> THEN t
    ELSE TokenFold(TokenStep(t, Head(traffic)), Tail(traffic))

\* Step A: doc_id, fb_dtsg and lsd from the captured traffic
DeriveTokens(traffic) == TokenFold(NoTokens, traffic)

\* const finalDocId = adQueryDocId || trafficDocId
FinalDocId(t) == OrElse(t.adQueryDocId, t.trafficDocId)

\* the loop of Step A, one captured entry at a time
DeriveStep ==
    /\ folded < Len(captures)
    /\ tokens' = TokenStep(tokens, captures[folded + 1])
    /\ folded' = folded + 1
    /\ UNCHANGED <<suspended, request, response, call, cardVars, captures,
                   mediaVars, regionVars, runVars>>

\* FallbackEntered on every low yield
FallbackEntered_AnyLimit(count, lim) == count <= LOW_YIELD_ADS

\* if (collectedAds.length < limit && collectedAds.length <= 30)
FallbackEntered(count, lim) == count < lim /\ count <= LOW_YIELD_ADS

\* Phase 5 entry and Step A
Fallback ==
    /\ pc = "fallback"
    /\ IF FallbackEntered(Len(collectedAds), limit)
       THEN LET t == DeriveTokens(graphqlTraffic)
            IN  /\ trafficDocId' = t.trafficDocId
                /\ trafficDtsg' = t.trafficDtsg
                /\ trafficLsd' = t.trafficLsd
                /\ adQueryDocId' = t.adQueryDocId
                /\ pc' = "pageScripts"
       ELSE /\ pc' = "finalize"
            /\ UNCHANGED <<trafficDocId, trafficDtsg, trafficLsd, adQueryDocId>>
    /\ UNCHANGED <<hostVars, inputVars, now, browser, settled, pageVars, diagnostics,
                   eventVars, advertiserName, hydVars, scrollVars, pageState,
                   apiVars, scrollTest, exitVars, histVars>>

\* what the scan of the embedded scripts can find
PageStates ==
    { [forwardCursor |-> f, endCursor |-> e] : f \in {NULL, 1}, e \in {NULL, 2} }

\* const cursor = pageState.forwardCursor || pageState.endCursor
EffectiveCursor(ps) == OrElse(ps.forwardCursor, ps.endCursor)

\* TokensComplete that does not test the CSRF token
TokensComplete_NoDtsg(cursor, dtsg, docId) == cursor # NULL /\ docId # NULL

\* if (cursor && finalDtsg && finalDocId)
TokensComplete(cursor, dtsg, docId) ==
    cursor # NULL /\ dtsg # NULL /\ docId # NULL

\* Step B: const pageState = await page.evaluate(...); the token diagnostics;
\* the precondition of the pagination loop
ReadPageScripts ==
    /\ pc = "pageScripts"
    /\ \/ /\ \E ps \in PageStates :
                LET cursor == EffectiveCursor(ps)
                    finalDocId == FinalDocId([adQueryDocId |-> adQueryDocId,
                                              trafficDocId |-> trafficDocId])
                    finalDtsg == trafficDtsg
                    tokenDiags ==
                        <<[label |-> "v3-tokens",
                           data |-> <<trafficDocId, adQueryDocId,
                                      finalDtsg # NULL, trafficLsd # NULL, ps>>],
                          [label |-> "v3-graphql-traffic",
                           data |-> graphqlTraffic]>>
                IN  /\ pageState' = ps
                    /\ IF TokensComplete(cursor, finalDtsg, finalDocId)
                       THEN /\ diagnostics' = diagnostics \o tokenDiags
                            /\ currentCursor' = cursor
                            /\ pc' = "apiHead"
                       ELSE /\ diagnostics' = diagnostics \o tokenDiags \o
                                  <<[label |-> "v3-missing-tokens",
                                     data |-> <<cursor # NULL, finalDtsg # NULL,
                                                finalDocId # NULL>>]>>
                            /\ currentCursor' = currentCursor
                            /\ pc' = "finalize"
          /\ apiPage' = 0
          /\ apiAds' = <<>>
          /\ UNCHANGED <<hostVars, inputVars, now, browser, settled, pageVars, eventVars,
                         advertiserName, hydVars, scrollVars, trafficDocId,
                         trafficDtsg, trafficLsd, adQueryDocId,
                         scrollTest, exitVars, histVars>>
       \/ RaiseOnly("pageScripts")

\* MergeApiAds that drops the API-derived records
MergeApiAds_Dropped(collected, api) == collected

\* if (apiAds.length > 0) collectedAds = [...collectedAds, ...apiAds]
MergeApiAds(collected, api) == IF Len(api) > 0 THEN collected \o api ELSE collected

\* ApiLoopCondition that does not compare the total with the limit
ApiLoopCondition_NoLimit(total, lim, cursor, page) ==
    cursor # NULL /\ page < MAX_API_PAGES

\* while ((collectedAds.length + apiAds.length) < limit && currentCursor
\*        && apiPage < 50) {
\*   if (Date.now() - startTime > DEFAULT_TIMEOUT_MS) break;
\*   apiPage++;
ApiLoopCondition(total, lim, cursor, page) ==
    total < lim /\ cursor # NULL /\ page < MAX_API_PAGES

ApiHead ==
    /\ pc = "apiHead"
    /\ LET continues == ApiLoopCondition(Len(collectedAds) + Len(apiAds), limit,
                                         currentCursor, apiPage)
       IN  IF continues /\ ~BudgetExceeded(now)
           THEN /\ apiPage' = apiPage + 1
                /\ pc' = "apiFetch"
                /\ UNCHANGED <<collectedAds, apiExit>>
           ELSE /\ collectedAds' = MergeApiAds(collectedAds, apiAds)
                /\ apiExit' =
                      IF continues THEN "budget"
                      ELSE IF Len(collectedAds) + Len(apiAds) >= limit
                      THEN "limit" ELSE "condition"
                /\ pc' = "finalize"
                /\ UNCHANGED apiPage
    /\ UNCHANGED <<hostVars, inputVars, now, browser, settled, pageVars, diagnostics,
                   eventVars, advertiserName, hydVars, staleScrollCount,
                   previousAdCount, tokenVars, currentCursor,
                   apiAds, scrollTest, exitVars, loopExit, unchangedRun,
                   lastCount, domAds, apiRequests, apiDiscovered,
                   nextMatches, initialAds, scrolled>>

\* What the in-page fetch of one API page returns: { ok, status, body }, the
\* body reduced to what the parser reads from it: the ad ids matched by
\* /"(?:ad_archive_id|library_id)"\s*:\s*"?(\d+)"?/g in order, whether the text
\* includes an ad marker, and the forward_cursor and end_cursor values.
ApiIdLists == { <<>>, <<2, 101>>, <<101, 101, 102>> }

ApiResponses ==
    { [ok |-> FALSE, status |-> 0, ids |-> <<>>, marker |-> FALSE,
       nextFwd |-> NULL, nextEnd |-> NULL] }
    \cup
    { [ok |-> TRUE, status |-> st, ids |-> <<>>, marker |-> FALSE,
       nextFwd |-> NULL, nextEnd |-> NULL] : st \in {403, 500} }
    \cup
    { r \in [ok : {TRUE}, status : {200}, ids : ApiIdLists, marker : BOOLEAN,
             nextFwd : {NULL, 1}, nextEnd : {NULL, 2}] :
        r.ids # <<>> => r.marker }

\* a server that returns the same page, with the same cursor, again and again
RepeatedResponse ==
    [ok |-> TRUE, status |-> 200, ids |-> <<2, 101>>, marker |-> TRUE,
     nextFwd |-> 1, nextEnd |-> NULL]

\* a server error
ErrorResponse ==
    [ok |-> TRUE, status |-> 500, ids |-> <<>>, marker |-> FALSE,
     nextFwd |-> NULL, nextEnd |-> NULL]

\* what the server answers to the request for page apiPage
ServerResponses ==
    IF env # "api" THEN {r \in ApiResponses : ~r.ok \/ r.status # 200}
    ELSE IF apiPage <= MaxFreePages THEN ApiResponses
    ELSE {RepeatedResponse, ErrorResponse}

\* [...new Set(ids)]: first occurrences, in order
RECURSIVE UniqueIds(_)
UniqueIds(ids) ==
    IF ids = <<>> THEN <<>>
    ELSE LET front == UniqueIds(SubSeq(ids, 1, Len(ids) - 1))
             last == ids[Len(ids)]
         IN  IF \E i \in 1..Len(front) : front[i] = last
             THEN front ELSE Append(front, last)

HasId(ads, id) == \E i \in 1..Len(ads) : ads[i].libraryId = id

\* the record built from the text around an ad id of an API response
ApiAd(id) == [libraryId |-> id, assetType |-> "image", impressions |-> NO_NAME]

\* PushApiAds without the skip of the ids already collected
PushApiAds_NoSkip(ids, collected, api) ==
    api \o [i \in 1..Len(ids) |-> ApiAd(ids[i])]

\* for (const adId of uniqueIds) {
\*   if (collectedAds.some(...) || apiAds.some(...)) continue;
\*   apiAds.push({...}) }
RECURSIVE PushApiAds(_, _, _)
PushApiAds(ids, collected, api) ==
    IF ids = <<>> THEN api
    ELSE IF HasId(collected, Head(ids)) \/ HasId(api, Head(ids))
         THEN PushApiAds(Tail(ids), collected, api)
         ELSE PushApiAds(Tail(ids), collected, Append(api, ApiAd(Head(ids))))

\* history: the ids met so far, each at its first discovery
RECURSIVE Discover(_, _)
Discover(seen, ids) ==
    IF ids = <<>> THEN seen
    ELSE Discover(IF \E i \in 1..Len(seen) : seen[i] = Head(ids)
                  THEN seen ELSE Append(seen, Head(ids)),
                  Tail(ids))

\* NextCursor that prefers the end cursor
NextCursor_EndFirst(r) == OrElse(r.nextEnd, r.nextFwd)

\* const nextCursor = nextFwdMatch?.[1] || nextEndMatch?.[1] || null
NextCursor(r) == OrElse(r.nextFwd, r.nextEnd)

\* one API page: the in-page fetch, the status check, the parse of the body
\* what the capture handler records of the response to the run's own
\* request: the request is one to /api/graphql, made by the page
ApiCapture(r) ==
    Capture(FinalDocId([adQueryDocId |-> adQueryDocId,
                        trafficDocId |-> trafficDocId]),
            trafficDtsg, trafficLsd, TRUE, r.marker, r.status)

ApiFetch ==
    /\ pc = "apiFetch"
    /\ \/ /\ \E r \in ServerResponses :
                LET nextCursor == NextCursor(r)
                    failed == ~r.ok \/ r.status # 200
                    hasAdData == r.marker
                    api1 == IF ~failed /\ hasAdData
                            THEN PushApiAds(UniqueIds(r.ids), collectedAds, apiAds)
                            ELSE apiAds
                    stop == failed \/ ~hasAdData \/ nextCursor = NULL
                    captured == r.ok /\ eventCount < EnvEvents(env)
                IN  /\ apiAds' = api1
                    /\ eventCount' = IF captured THEN eventCount + 1 ELSE eventCount
                    /\ pendingReads' =
                          IF captured
                          THEN pendingReads \cup
                                 {[seq |-> eventCount + 1, cap |-> ApiCapture(r)]}
                          ELSE pendingReads
                    /\ nextMatches' =
                          IF failed THEN nextMatches
                          ELSE [forwardCursor |-> r.nextFwd,
                                endCursor |-> r.nextEnd]
                    /\ apiDiscovered' =
                          IF ~failed /\ hasAdData
                          THEN Discover(apiDiscovered, r.ids) ELSE apiDiscovered
                    /\ blockedRequests' =
                          IF r.ok /\ r.status = 403
                          THEN Append(blockedRequests, "403: api")
                          ELSE blockedRequests
                    /\ diagnostics' =
                          IF failed
                          THEN Append(diagnostics,
                                 [label |-> "v3-api-fail",
                                  data |-> <<apiPage, r.status>>])
                          ELSE IF ~hasAdData
                          THEN Append(diagnostics,
                                 [label |-> "v3-api-no-data",
                                  data |-> <<apiPage>>])
                          ELSE diagnostics
                    /\ IF stop
                       THEN /\ collectedAds' = MergeApiAds(collectedAds, api1)
                            /\ apiExit' = IF failed THEN "status"
                                          ELSE IF ~hasAdData THEN "no-data"
                                          ELSE "no-cursor"
                            /\ pc' = "finalize"
                            /\ UNCHANGED currentCursor
                       ELSE /\ currentCursor' = nextCursor
                            /\ pc' = "apiDelay"
                            /\ UNCHANGED <<collectedAds, apiExit>>
          /\ apiRequests' = apiRequests + 1
          /\ UNCHANGED <<hostVars, inputVars, now, browser, settled, pageVars,
                         consoleErrors, pageErrors, networkLog, graphqlTraffic,
                         advertiserName, hydVars,
                         staleScrollCount, previousAdCount,
                         tokenVars, apiPage, scrollTest, exitVars, loopExit,
                         unchangedRun, lastCount, domAds, initialAds,
                         scrolled>>
       \/ RaiseOnly("apiFetch")

\* await page.waitForTimeout(1000 + ...) inside the try of the parse: its
\* exception is caught there, logged as a parse failure and ends the loop
ApiDelay ==
    /\ pc = "apiDelay"
    /\ \/ Goto("apiHead")
       \/ /\ diagnostics' = Append(diagnostics,
                               [label |-> "v3-api-parse-fail", data |-> <<apiPage>>])
          /\ collectedAds' = MergeApiAds(collectedAds, apiAds)
          /\ apiExit' = "parse"
          /\ pc' = "finalize"
          /\ UNCHANGED <<hostVars, inputVars, now, browser, settled, pageVars, eventVars,
                         advertiserName, hydVars, staleScrollCount,
                         previousAdCount, tokenVars, apiVars,
                         scrollTest, exitVars, loopExit, unchangedRun,
                         lastCount, domAds, apiRequests, apiDiscovered,
                         nextMatches, initialAds, scrolled>>

\* What a diagnostic entry holds when it is read.  The entries that carry a
\* list ({ traffic: graphqlTraffic }, { log: networkLog }, { errors:
\* pageErrors }) hold the array of the run itself, not a copy of it: their
\* content is the content of that array now, and their data field is what
\* it was when the entry was pushed.  Every other entry is built from values
\* of its own.
EntryContent(e) ==
    CASE e.label = "v3-graphql-traffic" -> graphqlTraffic
      [] e.label = "v2-final-network" -> networkLog
      [] e.label = "v3-page-errors" -> pageErrors
      [] OTHER -> e

\* ------------------------------------------------------ the run: the result
CompleteLabel ==
    CASE fn = "scrape" -> "after-scrape-complete"
      [] fn = "scrapeV2" -> "v2-complete"
      [] OTHER -> "v3-complete"

\* const ads = collectedAds.slice(0, limit); the closing diagnostics; return
Finalize ==
    /\ pc = "finalize"
    /\ \E failed \in BOOLEAN :
          /\ MayFail(failed)
          /\ diagnostics' =
                diagnostics
                \o <<collectPageDiagnostics(CompleteLabel, failed)>>
                \o (IF fn = "scrapeV2"
                    THEN <<[label |-> "v2-final-network", data |-> networkLog]>>
                    ELSE <<>>)
                \o (IF fn = "scrapeV3" /\ Len(pageErrors) > 0
                    THEN <<[label |-> "v3-page-errors", data |-> pageErrors]>>
                    ELSE <<>>)
    /\ result' = SuccessResult(Slice(collectedAds, limit), advertiserName)
    /\ completion' = "return"
    /\ pc' = "finally"
    /\ UNCHANGED <<hostVars, inputVars, now, browser, settled, pageVars, eventVars,
                   advertiserName, hydVars, scrollVars, tokenVars, apiVars,
                   scrollTest, escapedAt,
                   logsAtRaise, histVars>>

\* ------------------------------------------------ takeScreenshot, diagnose
\* diagnose: the ad count before its one test scroll
PreScroll ==
    /\ pc = "dgPreScroll"
    /\ \/ /\ scrollTest' = <<Len(dom), 0>>
          /\ pc' = "dgScroll"
          /\ UNCHANGED <<hostVars, inputVars, now, browser, settled, pageVars,
                         diagnostics, eventVars, advertiserName, hydVars,
                         scrollVars, tokenVars, apiVars, exitVars, histVars>>
       \/ RaiseOnly("dgPreScroll")

\* diagnose: the smooth scroll to the bottom and waitForTimeout(5_000)
TestScroll ==
    /\ pc = "dgScroll"
    /\ \/ Goto("dgPostScroll")
       \/ RaiseOnly("dgScroll")

\* diagnose: the ad count after the scroll
PostScroll ==
    /\ pc = "dgPostScroll"
    /\ \/ /\ scrollTest' = <<scrollTest[1], Len(dom)>>
          /\ pc' = "screenshot"
          /\ UNCHANGED <<hostVars, inputVars, now, browser, settled, pageVars,
                         diagnostics, eventVars, advertiserName, hydVars,
                         scrollVars, tokenVars, apiVars, exitVars, histVars>>
       \/ RaiseOnly("dgPostScroll")

\* diagnose: scrollTrulyLoaded ? 'INFINITE_SCROLL_WORKING' : 'INFINITE_SCROLL_BROKEN'
Verdict(pre, post) ==
    IF (IF pre > 0 THEN post > pre ELSE post > 25)
    THEN "INFINITE_SCROLL_WORKING" ELSE "INFINITE_SCROLL_BROKEN"

\* await page.screenshot(...) and the return statement
Screenshot ==
    /\ pc = "screenshot"
    /\ \/ /\ result' =
                IF fn = "takeScreenshot"
                THEN [screenshot |-> "jpeg", diagnostics |-> diagnostics[1]]
                ELSE [screenshot |-> "jpeg", pageDiagnostics |-> diagnostics[1],
                      verdict |-> Verdict(scrollTest[1], scrollTest[2])]
          /\ completion' = "return"
          /\ pc' = "finally"
          /\ UNCHANGED <<hostVars, inputVars, now, browser, settled, pageVars,
                         diagnostics, eventVars, advertiserName, hydVars,
                         scrollVars, tokenVars, apiVars, scrollTest, escapedAt,
                         logsAtRaise, histVars>>
       \/ RaiseOnly("screenshot")

\* ------------------------------------------------------------ specification
Next ==
    \/ Tick
    \/ PageMutate
    \/ OnResponse
    \/ ReadBody
    \/ OnConsoleError
    \/ Launch
    \/ Setup
    \/ Navigate
    \/ DismissCookieConsent
    \/ WaitForAdsToRender
    \/ HydrationPoll
    \/ HydrationWait
    \/ SettleAfterLoad
    \/ DiagnoseLoad
    \/ JsState
    \/ ExtractAdvertiserName
    \/ InitialExtraction
    \/ LoopHead
    \/ ScrollCommand
    \/ ClickSeeMore
    \/ SettleDelay
    \/ NearBottom
    \/ ReExtract
    \/ Compare
    \/ Fallback
    \/ ReadPageScripts
    \/ ApiHead
    \/ ApiFetch
    \/ ApiDelay
    \/ Finalize
    \/ PreScroll
    \/ TestScroll
    \/ PostScroll
    \/ Screenshot
    \/ Finally
    \/ SettlePromise

Spec == Init /\ [][Next]_vars

\* the steps of the run itself
RunStep ==
    \/ Launch \/ Setup \/ Navigate \/ DismissCookieConsent
    \/ WaitForAdsToRender \/ HydrationPoll \/ HydrationWait
    \/ SettleAfterLoad \/ DiagnoseLoad \/ JsState \/ ExtractAdvertiserName
    \/ InitialExtraction \/ LoopHead \/ ScrollCommand \/ ClickSeeMore
    \/ SettleDelay \/ NearBottom \/ ReExtract \/ Compare \/ Fallback
    \/ ReadPageScripts \/ ApiHead \/ ApiFetch \/ ApiDelay \/ Finalize
    \/ PreScroll \/ TestScroll \/ PostScroll \/ Screenshot \/ Finally
    \/ SettlePromise

\* the runs whose termination is examined: pages of cards with ids of their
\* own, and under the "api" environment the limit 10
LiveInit ==
    /\ Init
    /\ pageKind = "distinct"
    /\ env = "api" => adLimit < MIN_ADS

\* Every browser operation the run awaits eventually returns or throws.
FairSpec == LiveInit /\ [][Next]_vars /\ WF_vars(RunStep)

\* Two runs in one process: scrapeV3 and scrape, each against a page of its
\* own, interleaved at every await.  The page of scrapeV3 shows no spinner
\* and its server answers no API request with a page of results, so the
\* hydration wait and the delay between two API pages are no steps of it.
PairInit == Init /\ env = "shared"

PairNext ==
    \/ Switch
    \/ OnResponse \/ ReadBody \/ OnConsoleError
    \/ Launch \/ Setup \/ Navigate \/ DismissCookieConsent
    \/ WaitForAdsToRender \/ HydrationPoll
    \/ SettleAfterLoad \/ DiagnoseLoad \/ ExtractAdvertiserName
    \/ InitialExtraction \/ LoopHead \/ ScrollCommand \/ ClickSeeMore
    \/ SettleDelay \/ ReExtract \/ Compare \/ Fallback
    \/ ReadPageScripts \/ ApiHead \/ ApiFetch \/ Finalize
    \/ Finally \/ SettlePromise

PairSpec == PairInit /\ [][PairNext]_vars

\* The front door alone: a request arrives and its route handler validates it
\* and calls the route's function.
RouteInit ==
    /\ RunInit
    /\ fn = "scrape" /\ env = "static" /\ adLimit = 25 /\ pageKind = "distinct"
    /\ suspended = NoRun
    /\ request \in Requests /\ response = NULL /\ call = NoCall
    /\ metadataSpans = <<>> /\ dates = NotParsed
    /\ FoldIdle
    /\ MediaIdle
    /\ RegionIdle

RouteNext == Route

RouteSpec == RouteInit /\ [][RouteNext]_vars

\* The token derivation alone, for every list of at most MaxCaptures captured
\* entries.
CaptureLists ==
    UNION {[1..n -> CaptureSet] : n \in 0..MaxCaptures}

TokenInit ==
    /\ RunInit
    /\ fn = "scrapeV3" /\ env = "traffic"
    /\ suspended = NoRun
    /\ request = NoRequest /\ response = NULL /\ call = NoCall
    /\ metadataSpans = <<>> /\ dates = NotParsed
    /\ captures \in CaptureLists /\ folded = 0 /\ tokens = NoTokens
    /\ MediaIdle
    /\ RegionIdle

TokenNext == DeriveStep

TokenSpec == TokenInit /\ [][TokenNext]_vars

\* The media resolution alone, for every card of AdCards.
MediaInit ==
    /\ RunInit
    /\ fn = "scrape" /\ env = "static" /\ adLimit = 25 /\ pageKind = "distinct"
    /\ suspended = NoRun
    /\ request = NoRequest /\ response = NULL /\ call = NoCall
    /\ metadataSpans = <<>> /\ dates = NotParsed
    /\ FoldIdle
    /\ adCard \in AdCards /\ pushed = NotRead
    /\ RegionIdle

MediaNext == ReadCard

MediaSpec == MediaInit /\ [][MediaNext]_vars

\* The asset of an API-derived record alone, for every region of AdRegions.
RegionInit ==
    /\ RunInit
    /\ fn = "scrapeV3" /\ env = "traffic"
    /\ suspended = NoRun
    /\ request = NoRequest /\ response = NULL /\ call = NoCall
    /\ metadataSpans = <<>> /\ dates = NotParsed
    /\ FoldIdle
    /\ MediaIdle
    /\ adRegion \in AdRegions /\ apiRecord = NotRead

RegionNext == ReadRegion

RegionSpec == RegionInit /\ [][RegionNext]_vars

\* The date extraction alone, for every card of CardSpans.
DateInit ==
    /\ RunInit
    /\ fn = "scrape" /\ env = "static" /\ adLimit = 25 /\ pageKind = "distinct"
    /\ suspended = NoRun
    /\ request = NoRequest /\ response = NULL /\ call = NoCall
    /\ metadataSpans \in CardSpans /\ dates = NotParsed
    /\ FoldIdle
    /\ MediaIdle
    /\ RegionIdle

DateNext == ReadDates

DateSpec == DateInit /\ [][DateNext]_vars

TypeOK ==
    /\ fn \in Fns
    /\ limit \in MIN_ADS..MAX_ADS
    /\ browser \in {"null", "open", "closed", "closeFailed"}
    /\ settled \in {"pending", "return", "throw"}
    /\ staleScrollCount \in 0..MAX_STALE_SCROLLS
    /\ apiPage \in 0..MAX_API_PAGES

\* --------------------------------------------------------------- properties
\* the library ids of a record sequence
Ids(ads) == [i \in 1..Len(ads) |-> ads[i].libraryId]

\* C1: in every successful result of scrapeV3 every returned record has a
\* non-empty libraryId and no two returned records share a libraryId
C1_LibraryIdsUnique ==
    (pc = "done" /\ fn = "scrapeV3" /\ result.success) =>
        /\ \A i \in 1..Len(result.ads) : result.ads[i].libraryId # NULL
        /\ \A i, j \in 1..Len(result.ads) :
              result.ads[i].libraryId = result.ads[j].libraryId => i = j

\* C2: the effective limit of the scrapers is adLimit clamped to 10..1000,
\* and the returned result never holds more records than the effective limit
C2_LimitClampedAndRespected ==
    fn \in Scrapers =>
        /\ limit = (IF adLimit < 10 THEN 10
                    ELSE IF adLimit > 1000 THEN 1000 ELSE adLimit)
        /\ (pc = "done" => Len(result.ads) <= limit)

\* an API page pushed the collected total above the limit and the result
\* holds exactly limit records
C2_Witness ==
    /\ pc = "done" /\ fn = "scrapeV3" /\ adLimit < 10
    /\ apiRequests > 0
    /\ Len(collectedAds) > limit
    /\ result.success /\ Len(result.ads) = limit

\* C3: the result of scrapeV3 is the DOM-derived records in DOM order, then
\* the records of the API ids, in discovery order, that occur neither in the
\* DOM-derived records nor earlier among the API ids, cut to its first limit
\* records
C3_MergeOrder ==
    (pc = "done" /\ fn = "scrapeV3" /\ result.success) =>
        LET new == SelectSeq(apiDiscovered,
                       LAMBDA id : \A i \in 1..Len(domAds) :
                                      domAds[i].libraryId # id)
            merged == domAds \o [i \in 1..Len(new) |-> ApiAd(new[i])]
        IN  result.ads =
                SubSeq(merged, 1, IF Len(merged) < limit THEN Len(merged) ELSE limit)

\* DOM [1, 2] and API [2, 101] yield [1, 2, 101]
C3_Witness ==
    /\ pc = "done" /\ fn = "scrapeV3" /\ result.success
    /\ Ids(domAds) = <<1, 2>>
    /\ apiDiscovered = <<2, 101>>
    /\ Ids(result.ads) = <<1, 2, 101>>

\* C4: when the budget is found exceeded at the head of the scroll loop or of
\* the API pagination loop, the run returns success=true with no error and
\* the records collected up to that point, cut to the limit
C4_BudgetExceededIsSuccess ==
    (pc = "done" /\ fn \in Scrapers
        /\ (loopExit = "budget" \/ apiExit = "budget")) =>
        /\ result.success
        /\ result.errors = <<>>
        /\ result.ads = Slice(domAds \o apiAds, limit)

\* s is a prefix of t
IsPrefix(s, t) == Len(s) <= Len(t) /\ SubSeq(t, 1, Len(s)) = s

\* an exception was thrown and handled inside a step: a page snapshot whose
\* page read failed, a failed wait between two API pages
HandledInStep ==
    \E i \in DOMAIN diagnostics :
        \/ IsFailedSnapshot(diagnostics[i])
        \/ diagnostics[i].label = "v3-api-parse-fail"

\* C5 as stated: after an exception thrown at any step of a scraper, a page
\* evaluation or a wait included, the result is the failure result
C5_AnyExceptionFails ==
    (pc = "done" /\ fn \in Scrapers /\ (escapedAt # "none" \/ HandledInStep)) =>
        /\ ~result.success
        /\ result.ads = <<>>
        /\ result.totalFound = 0
        /\ Len(result.errors) = 1

\* C5, amended: a scraper never throws, and after an exception that reaches
\* the function's try statement it returns success=false, no ads, totalFound
\* 0 and exactly one error; its diagnostics are those gathered before the
\* exception, its blocked markers and console errors begin with those
\* gathered before the exception
C5_EscapedExceptionFails ==
    fn \in Scrapers =>
        /\ settled # "throw"
        /\ (pc = "done" /\ escapedAt # "none") =>
              /\ settled = "return"
              /\ ~result.success
              /\ result.ads = <<>>
              /\ result.totalFound = 0
              /\ Len(result.errors) = 1
              /\ diagnostics = logsAtRaise[1]
              /\ IsPrefix(logsAtRaise[2], blockedRequests)
              /\ IsPrefix(logsAtRaise[3], consoleErrors)

\* an extraction of scrapeV3 raised after diagnostics, a blocked marker and a
\* console error had been gathered
C5_Witness ==
    /\ pc = "done" /\ fn = "scrapeV3" /\ escapedAt = "initExtract"
    /\ Len(diagnostics) > 0 /\ Len(blockedRequests) > 0 /\ Len(consoleErrors) > 0
    /\ settled = "return" /\ ~result.success

\* C6: when the promise of any of the five functions settles, a browser that
\* was launched has been closed or its close has failed and been swallowed;
\* the finally block and the settling change neither the result nor how the
\* function completes
C6_BrowserClosedOnEveryExit ==
    /\ [](settled # "pending" =>
            /\ browser # "open"
            /\ (browser = "null" => escapedAt = "launch"))
    /\ [][pc = "finally" => (result' = result /\ completion' = completion)]_vars
    /\ [][pc = "settlePromise" =>
            (result' = result /\ settled' = completion)]_vars

\* diagnose threw, the close of its browser failed, the exception propagated
C6_Witness ==
    pc = "done" /\ fn = "diagnose" /\ browser = "closeFailed" /\ settled = "throw"

\* C7: in scrapeV3, when the cursor, the CSRF token or the query id is absent
\* after token derivation, no API request is issued, a diagnostic entry says
\* which of the three are present, and the run returns success=true with the
\* DOM-derived records
C7_MissingTokensNoRequest ==
    LET cursor == IF pageState.forwardCursor # NULL
                  THEN pageState.forwardCursor ELSE pageState.endCursor
        docId == IF adQueryDocId # NULL THEN adQueryDocId ELSE trafficDocId
        derived == \E i \in DOMAIN diagnostics : diagnostics[i].label = "v3-tokens"
    IN  (fn = "scrapeV3" /\ derived
            /\ (cursor = NULL \/ trafficDtsg = NULL \/ docId = NULL)) =>
            /\ apiRequests = 0
            /\ \E i \in DOMAIN diagnostics :
                  /\ diagnostics[i].label = "v3-missing-tokens"
                  /\ diagnostics[i].data =
                        <<cursor # NULL, trafficDtsg # NULL, docId # NULL>>
            /\ escapedAt = "none"
            /\ (pc = "done" => result.success /\ result.ads = domAds)

\* the captured traffic gave a query id and no CSRF token, the page a cursor
C7_Witness ==
    /\ pc = "done" /\ fn = "scrapeV3"
    /\ trafficDocId # NULL /\ trafficDtsg = NULL
    /\ pageState.forwardCursor # NULL
    /\ apiRequests = 0
    /\ result.success /\ Len(result.ads) = 2

\* the steps of a scroll iteration, and the head of the loop
ScrollSteps ==
    {"loopHead", "scroll", "seeMore", "settle", "nearBottom", "extract", "compare"}

\* C8: the stale counter never exceeds 10 and no scroll iteration is started
\* once it has reached 10; the loop has stopped at the 10th consecutive
\* iteration whose extracted count equals the count before it
C8_StaleCeiling ==
    /\ staleScrollCount <= 10
    /\ (staleScrollCount >= 10 => pc \notin ScrollSteps)
    /\ unchangedRun <= 10
    /\ (unchangedRun = 10 => loopExit = "stale" /\ pc \notin ScrollSteps)

\* scrapeV2 left its scroll loop at the 10th unchanged iteration
C8_Witness ==
    /\ fn = "scrapeV2" /\ pc = "finalize"
    /\ unchangedRun = 10 /\ staleScrollCount = 10 /\ loopExit = "stale"

\* the page shows 25 ad cards, each with an id of its own and an image, and
\* never changes
Static25 ==
    Len(dom) = 25 /\ pageKind = "distinct" /\ domChanges = 0 /\ docStatus = 200

\* C9 as stated, for the runs in which no exception reaches the try statement
\* and the budget does not expire: with 25 static cards and limit >= 25 the
\* run returns success=true, totalFound=25, and the scroll loop ends after 10
\* consecutive unchanged scrolls
C9_Static25TenScrolls ==
    (pc = "done" /\ fn \in Scrapers /\ Static25 /\ limit >= 25
        /\ escapedAt = "none" /\ loopExit # "budget") =>
        /\ result.success
        /\ result.totalFound = 25
        /\ loopExit = "stale" /\ unchangedRun = 10

\* C9, amended: in those runs the result is a success whose first 25 records
\* are the 25 cards; scrape and scrapeV2 with limit > 25 return exactly these
\* and end the scroll loop at the 10th consecutive unchanged scroll; scrapeV3
\* with limit > 25 ends it at the 3rd and returns exactly these unless API
\* requests were issued; with limit = 25 the loop ends because the limit is
\* reached, before any unchanged scroll
C9_Static25ByVariant ==
    (pc = "done" /\ fn \in Scrapers /\ Static25 /\ limit >= 25
        /\ escapedAt = "none" /\ loopExit # "budget") =>
        /\ result.success
        /\ Ids(Slice(result.ads, 25)) = [i \in 1..25 |-> i]
        /\ (limit > 25 /\ fn # "scrapeV3") =>
              (result.totalFound = 25 /\ loopExit = "stale" /\ unchangedRun = 10)
        /\ (limit > 25 /\ fn = "scrapeV3") =>
              /\ loopExit = "early" /\ unchangedRun = 3
              /\ (apiRequests = 0 => result.totalFound = 25)
        /\ limit = 25 =>
              (result.totalFound = 25 /\ loopExit = "limit" /\ unchangedRun = 0)

\* scrape, 25 static cards, limit above 25: ten unchanged scrolls, 25 records
C9_Witness ==
    /\ pc = "done" /\ fn = "scrape" /\ Static25 /\ limit > 25
    /\ loopExit = "stale" /\ unchangedRun = 10
    /\ result.success /\ result.totalFound = 25

\* C10: when the initial document load is answered with HTTP 403 the run
\* returns success=false with exactly one error and no ads
C10_Forbidden403Fails ==
    (pc = "done" /\ fn \in Scrapers /\ docStatus = 403) =>
        /\ ~result.success
        /\ Len(result.errors) = 1
        /\ result.ads = <<>>

\* C11: every run of scrape, scrapeV2 and scrapeV3 eventually returns a
\* result, whatever the page and the API do
C11_RunReturns == (fn \in Scrapers) => <>(pc = "done" /\ settled = "return")

\* scrapeV3 returned after the API had answered every one of the 50 requests
\* with the same page and the same cursor
C11_Witness ==
    /\ pc = "done" /\ fn = "scrapeV3" /\ settled = "return"
    /\ apiRequests = 50 /\ apiExit = "condition" /\ currentCursor # NULL

\* C12: failures of diagnostic-gathering steps never change the outcome.
\* Under the "noisy" environment the page does not change and the clock
\* stands still, so the run in which no step fails returns success=true with
\* the records of the page, cut to the limit; a run of the same scraper on
\* the same page in which only page snapshots or the script-state probe of
\* scrapeV2 fail must return the same success flag, ads and totalFound.
C12_DiagnosticsNeverChangeOutcome ==
    (pc = "done" /\ fn \in Scrapers /\ env = "noisy"
        /\ escapedAt \in {"none", "jsState"}) =>
        /\ result.success
        /\ result.ads = Slice(extractAdsFromDom(dom), limit)
        /\ result.totalFound = Len(result.ads)

\* the entry a step appends first to the diagnostics
Appended == diagnostics'[Len(diagnostics) + 1]

\* the appended entry is a snapshot record under the given label
AppendedUnder(label) ==
    /\ Len(diagnostics') > Len(diagnostics)
    /\ "label" \in DOMAIN Appended /\ Appended.label = label
    /\ "error" \in DOMAIN Appended

LoadSnapshotStep ==
    pc \in {"diagLoad", "shotDiag"} =>
        (pc' \in {"advertiser", "jsState", "screenshot"} /\ AppendedUnder(LoadLabel))

\* the closing snapshot; a body read that completes while the run is there
\* is a step of the capture handler
CompleteSnapshotStep ==
    (pc = "finalize" /\ pendingReads' = pendingReads) =>
        (pc' = "finally" /\ result'.success /\ AppendedUnder(CompleteLabel))

StaleSnapshotStep ==
    (pc = "compare" /\ Len(diagnostics') > Len(diagnostics)) =>
        (pc' \in {"loopHead", "fallback", "finalize"} /\ AppendedUnder(StaleLabel))

\* C13: collectPageDiagnostics never throws: no exception escapes from a step
\* that takes a snapshot, the step appends a record that carries the
\* snapshot's label, also when the page read failed, and the run continues
\* with the next step of its pipeline
C13_SnapshotNeverThrows ==
    /\ [](escapedAt \notin {"diagLoad", "shotDiag", "compare", "finalize"})
    /\ [][LoadSnapshotStep]_vars
    /\ [][CompleteSnapshotStep]_vars
    /\ [][StaleSnapshotStep]_vars

\* the page read of the first snapshot of scrape failed, the record with its
\* label was appended and the run went on to return a success
C13_Witness ==
    /\ pc = "done" /\ fn = "scrape" /\ result.success
    /\ diagnostics[1] = [label |-> "after-initial-load", error |-> TRUE]

\* a step of the running call leaves the variables of the suspended call as
\* they are; a change of call resumes the suspended call with exactly the
\* variables it was suspended with and suspends the running one with its own
IsolatedStep ==
    \/ suspended' = suspended
    \/ (RunRecord' = suspended /\ suspended' = RunRecord)

C15_RequestValidation ==
    (response # NULL \/ call # NoCall) =>
        LET id == request.facebookPageId
        IN  /\ (id.type # "string" \/ id.value = "") =>
                    (response = 400 /\ call = NoCall /\ browser = "null")
            /\ (id.type = "string" /\ id.value # ""
                    /\ request.adLimit.type = "undefined"
                    /\ request.route \in {"/scrape", "/scrape-v2", "/scrape-v3"}) =>
                    (response = NULL /\ call # NoCall /\ call.limit = 400)

\* a request whose facebookPageId is a number was answered with 400
C15_Witness ==
    /\ request # NoRequest
    /\ request.facebookPageId = [type |-> "number", value |-> "1234"]
    /\ response = 400 /\ call = NoCall

\* a call of extractAdsFromDom returns
ExtractionReturns ==
    /\ pc \in {"initExtract", "extract"}
    /\ pc' \in {"loopHead", "compare"}

\* the call leaves the page and the state of the run as they are, but for the
\* variable its caller assigns the returned sequence to
ExtractionReadOnly ==
    ExtractionReturns =>
        /\ dom' = dom /\ pageKind' = pageKind /\ spinner' = spinner
        /\ staleScrollCount' = staleScrollCount
        /\ (pc = "extract" => previousAdCount' = previousAdCount)
        /\ UNCHANGED <<hostVars, inputVars, now, browser, diagnostics, eventVars,
                       advertiserName, tokenVars, apiVars, exitVars>>

\* a call that follows another call of the run against the same page content
\* returns the sequence which that call returned
ExtractionIdempotent ==
    (ExtractionReturns /\ pc = "extract" /\ domChanges = 0
        /\ (fn = "scrapeV3" \/ previousAdCount > 0)) =>
        collectedAds' = collectedAds

RangeSpan ==
    metadataSpans[CHOOSE i \in 1..Len(metadataSpans) :
                     /\ MatchesRange(metadataSpans[i])
                     /\ \A j \in 1..i - 1 : ~MatchesRange(metadataSpans[j])]

\* C17: for a card with a metadata span that matches the date-range pattern,
\* startDate is the text before the separator and endDate the text after it;
\* only when no span matches the range pattern is startDate the date of a
\* "Started running on <date>" span, with endDate null
C17_DateRange ==
    dates # NotParsed =>
        IF \E i \in 1..Len(metadataSpans) : MatchesRange(metadataSpans[i])
        THEN \E k \in 1..Len(RangeSpan) :
                /\ RangeSpan[k] = Separator
                /\ dates.startDate = Trim(SubSeq(RangeSpan, 1, k - 1))
                /\ dates.endDate = Trim(SubSeq(RangeSpan, k + 1, Len(RangeSpan)))
        ELSE /\ dates.endDate = NO_TEXT
             /\ dates.startDate # NO_TEXT =>
                   \E i \in 1..Len(metadataSpans) :
                       \E k \in 1..Len(metadataSpans[i]) - 1 :
                           /\ metadataSpans[i][k] = StartedLead
                           /\ dates.startDate = <<metadataSpans[i][k + 1]>>

ComparisonStep ==
    (pc = "compare" /\ fn \in Scrapers) =>
        /\ Len(collectedAds) > previousAdCount => staleScrollCount' = 0
        /\ Len(collectedAds) = previousAdCount =>
              staleScrollCount' = staleScrollCount + 1

\* C18: in the scroll loop of every scraper the stale counter is 0 after an
\* iteration whose extracted count is greater than the count of the iteration
\* before, and it is incremented by exactly 1 in an iteration whose count
\* equals that count
C18_StaleCounter == [][ComparisonStep]_vars

\* the count grew after a stale iteration and the counter is back at 0
C18_Witness ==
    /\ pc = "loopHead" /\ fn \in Scrapers
    /\ \E i \in 1..Len(diagnostics) :
          /\ "label" \in DOMAIN diagnostics[i]
          /\ diagnostics[i].label \in
                {"first-stale-scroll", "v2-first-stale", "v3-first-stale"}
    /\ staleScrollCount = 0
    /\ previousAdCount = Len(collectedAds) /\ previousAdCount = 25 /\ lastCount = 25
    /\ domChanges = 1

\* scrapeV3 has just left its scroll loop without an exception
LoopLeft == fn = "scrapeV3" /\ pc = "fallback"

\* C19 as stated: the scroll loop of scrapeV3 is left, short of an exception,
\* only with the stale counter at 10, or with the collected count at the
\* limit, or with the budget expired
C19_ThreeExits ==
    LoopLeft =>
        \/ staleScrollCount = 10
        \/ Len(collectedAds) >= limit
        \/ now > 180000

\* C19: the scroll loop of scrapeV3 is left, short of an exception, only with
\* the stale counter at 10, or with the stale counter at 3 or more and at
\* most 30 records collected, or with the collected count at the limit, or
\* with the budget expired
C19_FourExits ==
    LoopLeft =>
        \/ staleScrollCount = 10
        \/ (staleScrollCount >= 3 /\ Len(collectedAds) <= 30)
        \/ Len(collectedAds) >= limit
        \/ now > 180000

\* the loop was left at the third stale iteration, with 25 records, below
\* the limit and within the budget
C19_Witness ==
    /\ LoopLeft
    /\ staleScrollCount = 3 /\ Len(collectedAds) = 25
    /\ Len(collectedAds) < limit /\ now <= 180000

NonGrowingStep ==
    (pc = "compare" /\ fn \in Scrapers /\ Len(collectedAds) <= previousAdCount) =>
        staleScrollCount' = staleScrollCount + 1

\* C20: the stale streak counts the consecutive non-growing iterations: an
\* iteration whose extracted count is equal to or lower than the count of the
\* iteration before adds 1 to it, so that the loop stops at the 10th of them
C20_DecreaseCountsAsStale == [][NonGrowingStep]_vars

\* the steps of the direct-API fallback of scrapeV3: the scan of the page
\* scripts that follows the token derivation, and the pagination loop
FallbackSteps == {"pageScripts", "apiHead", "apiFetch", "apiDelay"}

\* C21: the direct-API fallback of scrapeV3 is entered only when the scroll
\* loop ended by staleness with at most 30 records collected, never when it
\* ended because the budget expired or the limit was reached
C21_FallbackOnlyAfterStall ==
    (fn = "scrapeV3" /\ pc \in FallbackSteps) =>
        /\ loopExit \in {"early", "stale"}
        /\ Len(domAds) <= 30

\* a loop starts a further iteration: the next hydration poll, the next scroll
\* command, the next API request
IterationStarts ==
    \/ pc = "hydWait" /\ pc' = "hydPoll"
    \/ pc = "loopHead" /\ pc' = "scroll"
    \/ pc = "apiHead" /\ pc' = "apiFetch"

\* C22: every loop of a run (hydration poll, scroll loop, API pagination
\* loop) checks the elapsed time at each iteration boundary and starts no
\* further iteration once it exceeds 180 s
C22_NoIterationPastBudget == [][now > 180000 => ~IterationStarts]_vars

\* the first value of a list that is not null, or null
RECURSIVE FirstValue(_)
FirstValue(vals) ==
    IF vals = <<>> THEN NULL
    ELSE IF Head(vals) # NULL THEN Head(vals) ELSE FirstValue(Tail(vals))

\* the entries the derivation has processed
Processed == SubSeq(captures, 1, folded)

\* C23, as the code has it: during the token derivation the CSRF token, the
\* session token and the generic query-id hold the first value a processed
\* entry carried for them, so none of them is overwritten once set; the
\* ad-search query-id is not among them
C23_FirstSeenWins ==
    /\ tokens.trafficDtsg = FirstValue([i \in 1..folded |-> Processed[i].dtsg])
    /\ tokens.trafficLsd = FirstValue([i \in 1..folded |-> Processed[i].lsd])
    /\ tokens.trafficDocId = FirstValue([i \in 1..folded |-> Processed[i].docId])

\* a later entry carried another CSRF token and another query-id than the ones
\* already set
C23_Witness ==
    /\ folded >= 2
    /\ \E i \in 1..folded : \E j \in (i + 1)..folded :
          /\ Processed[i].dtsg # NULL
          /\ Processed[j].dtsg \notin {NULL, Processed[i].dtsg}
          /\ Processed[i].docId # NULL
          /\ Processed[j].docId \notin {NULL, Processed[i].docId}

\* C23, as stated: once the query-id, the CSRF token or the session token has
\* a value, processing a later entry leaves it unchanged
C23_NeverOverwritten ==
    [][DeriveStep =>
          /\ FinalDocId(tokens) # NULL => FinalDocId(tokens') = FinalDocId(tokens)
          /\ tokens.trafficDtsg # NULL => tokens'.trafficDtsg = tokens.trafficDtsg
          /\ tokens.trafficLsd # NULL => tokens'.trafficLsd = tokens.trafficLsd]_vars

\* the query-ids of the entries that carry an ad-search signal
SignalledDocIds ==
    {captures[i].docId : i \in {j \in 1..Len(captures) :
        /\ captures[j].docId # NULL
        /\ captures[j].varsHasPageId \/ captures[j].respHasAdMarker}}

\* C24: when an entry that carries a query-id also carries an ad-search
\* signal, the query-id that is replayed after the derivation is the query-id
\* of such an entry, whatever entries precede or follow it
C24_AdSearchDocIdWins ==
    (folded = Len(captures) /\ SignalledDocIds # {}) =>
        FinalDocId(tokens) \in SignalledDocIds

\* the forward cursor of a pair of matches if there is one, else its end cursor
ForwardElseEnd(m) ==
    IF m.forwardCursor # NULL THEN m.forwardCursor ELSE m.endCursor

\* C25: the first API request carries the forward cursor of the page scripts
\* if there is one, else their end cursor; every later request carries the
\* forward cursor of the API page before it if there is one, else its end
\* cursor, so a request repeats the cursor of the request before it only when
\* the server returned that cursor
C25_RequestCursor ==
    (fn = "scrapeV3" /\ pc = "apiFetch") =>
        currentCursor = IF apiPage = 1 THEN ForwardElseEnd(pageState)
                        ELSE ForwardElseEnd(nextMatches)

\* the second request follows a page that held both cursors, and it repeats
\* the cursor of the first request, which the server returned
C25_Witness ==
    /\ fn = "scrapeV3" /\ pc = "apiFetch" /\ apiPage = 2
    /\ nextMatches.forwardCursor # NULL /\ nextMatches.endCursor # NULL
    /\ pageState.forwardCursor # NULL /\ pageState.endCursor # NULL
    /\ currentCursor = ForwardElseEnd(pageState)

\* C26: a run of scrapeV3 issues at most 50 direct-API requests, and it
\* issues one only while the DOM-derived and the API-derived records together
\* are fewer than the limit and there is a current cursor
C26_RequestsBounded ==
    fn = "scrapeV3" =>
        /\ apiRequests <= 50
        /\ pc = "apiFetch" =>
              /\ Len(collectedAds) + Len(apiAds) < limit
              /\ currentCursor # NULL

\* the 50th request is about to be issued, the API-derived records counted
C26_Witness ==
    /\ fn = "scrapeV3" /\ pc = "apiFetch"
    /\ apiRequests = 49 /\ Len(apiAds) > 0

\* the last entry of the diagnostics
LastLabel == diagnostics[Len(diagnostics)].label

\* C27: the pagination loop ends when the limit is reached, when a page has
\* no next cursor, on a non-success status and on a page without ad data, and
\* whichever of the four ended it, the loop leaves a diagnostic entry of its
\* own, after the token entries pushed before the loop
C27_EveryEndRecorded ==
    (fn = "scrapeV3" /\ pc = "finalize"
        /\ apiExit \in {"limit", "no-cursor", "status", "no-data"}) =>
        /\ LastLabel \notin {"v3-tokens", "v3-graphql-traffic"}
        /\ apiExit = "status" => LastLabel = "v3-api-fail"
        /\ apiExit = "no-data" => LastLabel = "v3-api-no-data"

\* C28: when API page k fails (the fetch fails, the status is not 200, or the
\* parse step throws), no further page is requested, and the run returns
\* success=true with errors empty and with every record the earlier pages
\* yielded, as far as the limit allows
C28_FailedPageKeepsEarlier ==
    (fn = "scrapeV3" /\ apiExit \in {"status", "parse"}) =>
        /\ pc \notin {"apiHead", "apiFetch", "apiDelay"}
        /\ apiRequests = apiPage
        /\ pc = "done" =>
              /\ result.success
              /\ result.errors = <<>>
              /\ \/ Len(result.ads) = limit
                 \/ \A i \in 1..Len(apiDiscovered) :
                       HasId(result.ads, apiDiscovered[i])

\* the second page failed with status 500 and the result holds the record
\* the first page yielded
C28_Witness ==
    /\ fn = "scrapeV3" /\ pc = "done" /\ apiExit = "status" /\ apiPage = 2
    /\ result.success /\ Len(result.ads) < limit
    /\ HasId(result.ads, 101)

\* a hydration poll returns, having seen the page
PollReturns == pc = "hydPoll" /\ pc' # "hydPoll" /\ escapedAt' = escapedAt

\* the wait after a hydration poll returns
WaitReturns == pc = "hydWait" /\ pc' # "hydWait" /\ escapedAt' = escapedAt

\* C29: the hydration wait of scrapeV3 polls at most 30 times; the first
\* poll that sees at least one ad card and no spinner ends it, every other
\* poll is followed by the next one, and after the 30th poll the wait gives
\* up and the run goes on to the steps before extraction, without failing
C29_HydrationWait ==
    [][/\ pollIndex' < 30
       /\ PollReturns =>
             IF Len(dom) > 0 /\ ~spinner
             THEN hydrated' /\ pc' = "settleLoad"
             ELSE ~hydrated' /\ pc' = "hydWait" /\ pollIndex' = pollIndex
       /\ WaitReturns =>
             IF pollIndex < 29
             THEN pc' = "hydPoll" /\ pollIndex' = pollIndex + 1
             ELSE ~hydrated' /\ pc' = "settleLoad" /\ completion' = "none"]_vars

\* the wait gave up: the run is past the 30 polls, none of which succeeded,
\* and goes on
C29_Witness ==
    /\ fn = "scrapeV3" /\ pc = "initExtract" /\ ~hydrated
    /\ escapedAt = "none"

\* C30: when the hydration wait of scrapeV3 gives up, the run adds an entry
\* to its diagnostics that tells that hydration was skipped, and goes on
C30_HydrationTimeoutRecorded ==
    [][(WaitReturns /\ pc' = "settleLoad") =>
          /\ Len(diagnostics') = Len(diagnostics) + 1
          /\ IsPrefix(diagnostics, diagnostics')]_vars

\* the positions of the first-staleness snapshots in the diagnostics
FirstStaleSnapshots ==
    {i \in 1..Len(diagnostics) :
        diagnostics[i].label \in
            {"first-stale-scroll", "v2-first-stale", "v3-first-stale"}}

\* C31: in one run the scroll loop takes the first-staleness snapshot once,
\* on the first stale iteration of the run, and never again, also when
\* growth resets the stale streak and a new streak starts later
C31_FirstStaleSnapshotOnce ==
    fn \in Scrapers => Cardinality(FirstStaleSnapshots) <= 1

\* a step of the running call, not a change to the other call of the process
SameRun == suspended' = suspended

\* the handlers of the page are called: a response or a console message
\* arrives
EventArrives == eventCount' = eventCount + 1

\* the body reads started by the step
StartedReads == pendingReads' \ pendingReads

\* C32: in a run of scrapeV3 the capture list, the blocked-marker list and
\* the console-error list only grow at their end; a capture is appended only
\* when the body read of an internal-API response completes; a response
\* with status 403 appends one blocked marker, any other response none; a
\* console message of type error appends one console-error entry
C32_ListsAppendOnly ==
    [][(fn = "scrapeV3" /\ SameRun) =>
          /\ IsPrefix(graphqlTraffic, graphqlTraffic')
          /\ IsPrefix(blockedRequests, blockedRequests')
          /\ IsPrefix(consoleErrors, consoleErrors')
          /\ graphqlTraffic' # graphqlTraffic =>
                \E r \in pendingReads \ pendingReads' :
                    graphqlTraffic' = Append(graphqlTraffic, r.cap)
          /\ StartedReads # {} => env \in {"traffic", "api", "shared"}
          /\ (EventArrives /\ env \in {"traffic", "api", "shared"}) =>
                \E r \in StartedReads :
                    Len(blockedRequests') =
                        Len(blockedRequests) + (IF r.cap.status = 403 THEN 1 ELSE 0)
          /\ (EventArrives /\ env \notin {"traffic", "api", "shared"}) =>
                Len(blockedRequests') + Len(consoleErrors') + Len(pageErrors')
                    = Len(blockedRequests) + Len(consoleErrors)
                        + Len(pageErrors) + 1]_vars

\* a blocked internal-API response and a second one have arrived, the body of
\* one has been read and captured
C32_Witness ==
    /\ fn = "scrapeV3" /\ env = "traffic"
    /\ eventCount = 2
    /\ Len(blockedRequests) = 1
    /\ Len(graphqlTraffic) = 1

\* C33: the captures stand in the capture list in the order in which their
\* responses were observed, under every interleaving of the body reads: no
\* capture is appended while the body of an earlier response is still being
\* read; and every internal-API response observed before the fallback is in
\* the list when the token derivation has read it
C33_CapturesInEncounterOrder ==
    (fn = "scrapeV3" /\ env \in {"traffic", "api"}) =>
        /\ \A r \in pendingReads : Len(graphqlTraffic) < r.seq
        /\ pc = "pageScripts" =>
              /\ pendingReads = {}
              /\ Len(graphqlTraffic) = eventCount

\* which step of a scroll iteration follows which
IterationOrder ==
    { <<"loopHead", "scroll">>, <<"scroll", "seeMore">>, <<"scroll", "settle">>,
      <<"seeMore", "settle">>, <<"settle", "nearBottom">>,
      <<"settle", "extract">>, <<"nearBottom", "extract">>,
      <<"extract", "compare">>, <<"compare", "loopHead">> }

\* a step of a scroll iteration completes without an exception
IterationStep ==
    /\ pc \in {"scroll", "seeMore", "settle", "nearBottom", "extract", "compare"}
    /\ pc' # pc /\ SameRun /\ escapedAt' = escapedAt

\* C34: within a scroll iteration the scroll command, the settle delay, the
\* re-extraction and the comparison follow each other in this order, each
\* completed before the next begins; the records change only in the
\* re-extraction, never during a scroll or a settle; the comparison is with
\* the count of the iteration before (in scrapeV3 the count of the initial
\* extraction in the first iteration)
C34_IterationOrder ==
    [][(fn \in Scrapers /\ IterationStep) =>
          /\ <<pc, pc'>> \in IterationOrder \/ (pc = "compare" /\ pc' = AfterLoop)
          /\ pc # "extract" => collectedAds' = collectedAds
          /\ pc = "compare" =>
                /\ previousAdCount = lastCount
                /\ IF Len(collectedAds) = lastCount
                   THEN staleScrollCount' = staleScrollCount + 1
                   ELSE staleScrollCount' = 0]_vars

\* the comparison of a later iteration of scrapeV3 is about to be made, the
\* page having grown since the iteration before
C34_Witness ==
    /\ fn = "scrapeV3" /\ pc = "compare"
    /\ unchangedRun >= 1
    /\ Len(collectedAds) > lastCount /\ lastCount > 0

\* the eligible images of the card
EligibleImages == {i \in 1..Len(adCard.images) : Eligible(adCard.images[i])}

\* C35: for a card with a library id the extractor pushes a video record
\* whenever the card holds a video element, otherwise an image record for
\* its largest non-data-URI image, and nothing when it has neither; a pushed
\* record has an asset URL; a card without a library id pushes nothing
C35_MediaResolution ==
    pushed # NotRead =>
        /\ adCard.lid = NULL => ~pushed.emitted
        /\ pushed.emitted => pushed.assetUrl # NULL
        /\ adCard.lid # NULL =>
              IF adCard.video.present
              THEN pushed.emitted /\ pushed.assetType = "video"
              ELSE IF EligibleImages # {}
              THEN /\ pushed.emitted /\ pushed.assetType = "image"
                   /\ \E i \in EligibleImages :
                         /\ pushed.assetUrl = adCard.images[i].src
                         /\ \A j \in EligibleImages :
                               adCard.images[j].area <= adCard.images[i].area
              ELSE ~pushed.emitted

\* the URL the priority video-HD, video-SD, resized image, original image,
\* snapshot picks in the region, or NoUrl
PriorityUrl ==
    IF adRegion.video_hd_url # NoUrl THEN adRegion.video_hd_url
    ELSE IF adRegion.video_sd_url # NoUrl THEN adRegion.video_sd_url
    ELSE IF adRegion.resized_image_url # NoUrl THEN adRegion.resized_image_url
    ELSE IF adRegion.original_image_url # NoUrl THEN adRegion.original_image_url
    ELSE adRegion.snapshot_url

\* C36: the asset URL of an API-derived record is the first present of
\* video-HD, video-SD, resized image, original image, snapshot in the text
\* around its id, with its slashes unescaped; the record is a video exactly
\* when a video URL was chosen, and otherwise an image, without an asset URL
\* when none of the five is present
C36_AssetPriority ==
    apiRecord # NotRead =>
        /\ apiRecord.assetUrl.path = PriorityUrl.path
        /\ ~apiRecord.assetUrl.escaped
        /\ apiRecord.assetType = "video" <=> PriorityUrl.path \in {1, 2}
        /\ apiRecord.assetType \in {"video", "image"}

\* the region holds an escaped SD video URL, both image URLs and a snapshot,
\* and no HD video URL
C36_Witness ==
    /\ apiRecord # NotRead
    /\ adRegion.video_hd_url = NoUrl
    /\ adRegion.video_sd_url = [path |-> 2, escaped |-> TRUE]
    /\ adRegion.resized_image_url # NoUrl /\ adRegion.original_image_url # NoUrl
    /\ adRegion.snapshot_url # NoUrl
    /\ apiRecord.assetType = "video"

\* what the entry held when it was pushed
PushedContent(e) ==
    IF e.label \in {"v3-graphql-traffic", "v2-final-network", "v3-page-errors"}
    THEN e.data ELSE e

\* C37: a diagnostic entry is a snapshot: once appended to diagnostics, the
\* entries that carry the captured traffic or the network log included, its
\* content is what it was when it was appended, whatever response or console
\* message arrives later
C37_EntriesAreSnapshots ==
    fn \in Scrapers =>
        \A i \in DOMAIN diagnostics :
            EntryContent(diagnostics[i]) = PushedContent(diagnostics[i])

\* C38: every result returned by scrape, scrapeV2 or scrapeV3 has totalFound
\* equal to the length of ads and success true exactly when errors is empty;
\* a result with success false has no ads and no advertiser name, whatever
\* the run had collected before the exception
C38_ResultShape ==
    (fn \in Scrapers /\ settled = "return") =>
        /\ result.totalFound = Len(result.ads)
        /\ result.success <=> result.errors = <<>>
        /\ ~result.success =>
              /\ result.ads = <<>>
              /\ result.advertiserName = NO_NAME

\* a run that had collected records and an advertiser name returned a failure
C38_Witness ==
    /\ fn \in Scrapers /\ settled = "return"
    /\ ~result.success
    /\ Len(collectedAds) > 0
    /\ advertiserName # NO_NAME

\* C39: in scrapeV3, when the extraction before the scroll loop returns at
\* least limit records, the run issues no scroll command and no direct-API
\* request, and it returns the first limit records of that extraction
C39_InitialYieldSuffices ==
    (fn = "scrapeV3" /\ Len(initialAds) >= limit) =>
        /\ ~scrolled
        /\ pc \notin {"scroll", "pageScripts", "apiHead", "apiFetch", "apiDelay"}
        /\ apiRequests = 0
        /\ settled # "throw"
        /\ settled = "return" =>
              /\ result.success
              /\ result.ads = SubSeq(initialAds, 1, limit)

\* the first extraction returned more records than the limit of 10, and the
\* run has returned
C39_Witness ==
    /\ fn = "scrapeV3" /\ settled = "return"
    /\ limit = 10
    /\ Len(initialAds) > limit
    /\ Len(result.ads) = 10

====
